---- MODULE Spec2Model ----
(***************************************************************************)
(* Model of the XANES retrieval pipeline of Curves/xanes_data/retrieve.py: *)
(* element resolution, catalogue search over the ordered mirrors, dataset  *)
(* selection, archive download, spectrum extraction, parsing, edge         *)
(* resolution and the batch loop of main.                                  *)
(*                                                                         *)
(* Conventions of the model:                                               *)
(*  - a Python str that the code inspects (strip, lower, in, endswith) is  *)
(*    a sequence of one-character strings; a str that is only passed on or *)
(*    compared is a TLA+ string;                                           *)
(*  - a float is the tagged pair <<"num", n>> with n the value in units of *)
(*    0.01 (7112.0 is 711200), or NaN;                                     *)
(*  - a JSON scalar is tagged: <<"str", s>>, <<"int", n>>, <<"None">>;     *)
(*  - a dict is a function from its keys, an ordered dict (the XDI header) *)
(*    a sequence of [k, v] items;                                          *)
(*  - an exception is a result record with ok = FALSE.                     *)
(***************************************************************************)
EXTENDS Integers, Sequences, FiniteSets, TLC

VARIABLES
  argv,          \* main: the parsed command line [element, edge, normalize]
  pc,            \* main: "start", "loop", "exit"
  elements,      \* main: result of parse_element_list
  idx,           \* main: position of the for loop in elements (1-based)
  ok,            \* main: success counter
  exit_code,     \* process exit status; -1 while running
  stage,         \* fetch_convert_one: the statement group it is at
  gen,           \* the search_mdr generator's frame
  chosen_id,     \* fetch_convert_one: chosen_id
  chosen_title,  \* fetch_convert_one: chosen_title
  served,        \* history: the page requests of this search and their records
  yielded,       \* history: the records search_mdr has yielded, with their mirror
  dl_tried,      \* download_zip: the requests so far and their answers, in order
  zip_url,       \* fetch_convert_one: zip_url (the mirror it came from)
  zip_bytes,     \* fetch_convert_one: zip_bytes (the archive)
  spec_name,     \* fetch_convert_one: spec_name
  spec_bytes,    \* fetch_convert_one: spec_bytes
  header,        \* fetch_convert_one: header
  data,          \* fetch_convert_one: data (rows of <<E, mu>>)
  e0,            \* fetch_convert_one: e0
  files,         \* the files of the output directory: [path, content]
  outdir_exists, \* whether the output directory exists
  diag,          \* the lines printed for the current element (stderr and stdout)
  caught,        \* the exceptions caught by the last step, in order
  returned,      \* history: per processed element, what fetch_convert_one did
  call,          \* a function called on its own: [fn, ...arguments]
  outcome,       \* what that call returned or raised; <<"none">> before
  curves_dir,    \* convert.py: the files of curves_dir by name; absent when it is missing
  conv_pc,       \* convert.py main: "idle", "start", "loop", "done", "exit", "crashed"
  listing,       \* convert.py main: sorted(curves_dir.glob("*.*"))
  pos,           \* convert.py main: position of the for loop in listing (1-based)
  printed,       \* convert.py main: the lines printed so far
  saves          \* history: the np.save calls of main, in order

vars == <<argv, pc, elements, idx, ok, exit_code, stage, gen, chosen_id,
          chosen_title, served, yielded, dl_tried, zip_url, zip_bytes,
          spec_name, spec_bytes, header, data, e0, files, outdir_exists, diag, caught,
          returned, call, outcome, curves_dir, conv_pc, listing, pos,
          printed, saves>>

-----------------------------------------------------------------------------
(* Bounds of the model.                                                    *)

\* longest comma-separated element list given to main
MaxElems == 2
\* search_mdr's parameter max_pages (fetch_convert_one passes 5, line 282)
max_pages == 2

-----------------------------------------------------------------------------
(* Python str operations on sequences of characters.                       *)

UpperLetters ==
  <<"A","B","C","D","E","F","G","H","I","J","K","L","M",
    "N","O","P","Q","R","S","T","U","V","W","X","Y","Z">>
LowerLetters ==
  <<"a","b","c","d","e","f","g","h","i","j","k","l","m",
    "n","o","p","q","r","s","t","u","v","w","x","y","z">>
DigitChars == <<"0","1","2","3","4","5","6","7","8","9">>

IndexIn(c, tbl) == CHOOSE i \in DOMAIN tbl : tbl[i] = c
IsIn(c, tbl) == \E i \in DOMAIN tbl : tbl[i] = c

LowerChar(c) == IF IsIn(c, UpperLetters) THEN LowerLetters[IndexIn(c, UpperLetters)] ELSE c
UpperChar(c) == IF IsIn(c, LowerLetters) THEN UpperLetters[IndexIn(c, LowerLetters)] ELSE c

\* str.lower(), str.upper()
Lower(s) == [i \in DOMAIN s |-> LowerChar(s[i])]
Upper(s) == [i \in DOMAIN s |-> UpperChar(s[i])]

IsSpace(c) == c \in {" ", "\t"}

\* str.strip(): drop leading and trailing whitespace
RECURSIVE LStrip(_)
LStrip(s) == IF s # <<>> /\ IsSpace(Head(s)) THEN LStrip(Tail(s)) ELSE s
RECURSIVE RStrip(_)
RStrip(s) ==
  IF s # <<>> /\ IsSpace(s[Len(s)]) THEN RStrip(SubSeq(s, 1, Len(s) - 1)) ELSE s
Strip(s) == RStrip(LStrip(s))

\* sub in s
Contains(sub, s) ==
  \E i \in 0..(Len(s) - Len(sub)) : SubSeq(s, i + 1, i + Len(sub)) = sub
\* s.startswith(p), s.endswith(p)
StartsWith(s, p) == Len(p) <= Len(s) /\ SubSeq(s, 1, Len(p)) = p
EndsWith(s, p) == Len(p) <= Len(s) /\ SubSeq(s, Len(s) - Len(p) + 1, Len(s)) = p

\* s.isdigit()
IsDigitStr(s) == s # <<>> /\ \A i \in DOMAIN s : IsIn(s[i], DigitChars)
\* int(s) for a string of digits
RECURSIVE IntOf(_)
IntOf(s) ==
  IF s = <<>> THEN 0
  ELSE 10 * IntOf(SubSeq(s, 1, Len(s) - 1)) + (IndexIn(s[Len(s)], DigitChars) - 1)

\* s.split(sep): the pieces between the occurrences of the character sep
RECURSIVE SplitAt(_, _, _)
SplitAt(s, sep, cur) ==
  IF s = <<>> THEN <<cur>>
  ELSE IF Head(s) = sep THEN <<cur>> \o SplitAt(Tail(s), sep, <<>>)
  ELSE SplitAt(Tail(s), sep, Append(cur, Head(s)))
Split(s, sep) == SplitAt(s, sep, <<>>)

\* sep.join(parts)
RECURSIVE Join(_, _)
Join(parts, sep) ==
  IF parts = <<>> THEN <<>>
  ELSE IF Len(parts) = 1 THEN parts[1]
  ELSE parts[1] \o <<sep>> \o Join(Tail(parts), sep)

-----------------------------------------------------------------------------
(* Results and values.                                                     *)

Ok(v) == [ok |-> TRUE, val |-> v]
Raise(e) == [ok |-> FALSE, exc |-> e]

JStr(s) == <<"str", s>>
JInt(n) == <<"int", n>>
JNone == <<"None">>
Num(n) == <<"num", n>>
NaN == <<"nan", 0>>
IsNum(x) == x[1] = "num"

-----------------------------------------------------------------------------
(* Element helpers.                                                        *)

Z2SYM ==
  <<<<"H">>, <<"H","e">>, <<"L","i">>, <<"B","e">>, <<"B">>, <<"C">>, <<"N">>, <<"O">>,
    <<"F">>, <<"N","e">>, <<"N","a">>, <<"M","g">>, <<"A","l">>, <<"S","i">>, <<"P">>, <<"S">>,
    <<"C","l">>, <<"A","r">>, <<"K">>, <<"C","a">>, <<"S","c">>, <<"T","i">>, <<"V">>, <<"C","r">>,
    <<"M","n">>, <<"F","e">>, <<"C","o">>, <<"N","i">>, <<"C","u">>, <<"Z","n">>, <<"G","a">>, <<"G","e">>,
    <<"A","s">>, <<"S","e">>, <<"B","r">>, <<"K","r">>, <<"R","b">>, <<"S","r">>, <<"Y">>, <<"Z","r">>,
    <<"N","b">>, <<"M","o">>, <<"T","c">>, <<"R","u">>, <<"R","h">>, <<"P","d">>, <<"A","g">>, <<"C","d">>,
    <<"I","n">>, <<"S","n">>, <<"S","b">>, <<"T","e">>, <<"I">>, <<"X","e">>, <<"C","s">>, <<"B","a">>,
    <<"L","a">>, <<"C","e">>, <<"P","r">>, <<"N","d">>, <<"P","m">>, <<"S","m">>, <<"E","u">>, <<"G","d">>,
    <<"T","b">>, <<"D","y">>, <<"H","o">>, <<"E","r">>, <<"T","m">>, <<"Y","b">>, <<"L","u">>, <<"H","f">>,
    <<"T","a">>, <<"W">>, <<"R","e">>, <<"O","s">>, <<"I","r">>, <<"P","t">>, <<"A","u">>, <<"H","g">>,
    <<"T","l">>, <<"P","b">>, <<"B","i">>, <<"P","o">>, <<"A","t">>, <<"R","n">>, <<"F","r">>, <<"R","a">>,
    <<"A","c">>, <<"T","h">>, <<"P","a">>, <<"U">>>>

\* z in Z2SYM
InZ2SYM(n) == n \in DOMAIN Z2SYM

coerce_element_symbol(z_or_sym) ==
  LET s == Strip(z_or_sym) IN
  IF s = <<>> THEN Raise("ValueError: Empty element")
  ELSE IF IsDigitStr(s) THEN
    IF InZ2SYM(IntOf(s)) THEN Ok(Z2SYM[IntOf(s)])
    ELSE Raise("ValueError: Unknown atomic number")
  ELSE Ok(Upper(SubSeq(s, 1, 1)) \o Lower(SubSeq(s, 2, Len(s))))

\* the loop of parse_element_list over the tokens, out being the list so far
RECURSIVE parse_tokens(_, _)
parse_tokens(toks, out) ==
  IF toks = <<>> THEN Ok(out)
  ELSE LET token == Strip(Head(toks)) IN
       IF token = <<>> THEN parse_tokens(Tail(toks), out)
       ELSE LET r == coerce_element_symbol(token) IN
            IF r.ok THEN parse_tokens(Tail(toks), Append(out, r.val)) ELSE r

parse_element_list(arg) ==
  LET r == parse_tokens(Split(arg, ","), <<>>) IN
  IF ~r.ok THEN r
  ELSE IF r.val = <<>> THEN Raise("ValueError: No elements provided")
  ELSE r

\* K-edge energies in units of 0.01 eV
K_EDGES ==
  (<<"C">> :> 28420) @@ (<<"N">> :> 40990) @@ (<<"O">> :> 54310) @@
  (<<"F">> :> 69670) @@ (<<"N","a">> :> 107080) @@ (<<"M","g">> :> 130300) @@
  (<<"A","l">> :> 155960) @@ (<<"S","i">> :> 183900) @@ (<<"P">> :> 214550) @@
  (<<"S">> :> 247200) @@ (<<"C","l">> :> 282200) @@ (<<"K">> :> 360840) @@
  (<<"C","a">> :> 403850) @@ (<<"S","c">> :> 449200) @@ (<<"T","i">> :> 496640) @@
  (<<"V">> :> 546500) @@ (<<"C","r">> :> 598900) @@ (<<"M","n">> :> 653900) @@
  (<<"F","e">> :> 711200) @@ (<<"C","o">> :> 770900) @@ (<<"N","i">> :> 833300) @@
  (<<"C","u">> :> 897900) @@ (<<"Z","n">> :> 965900) @@ (<<"G","a">> :> 1036700) @@
  (<<"G","e">> :> 1110300) @@ (<<"A","s">> :> 1186700) @@ (<<"S","e">> :> 1265800) @@
  (<<"B","r">> :> 1347400) @@ (<<"K","r">> :> 1432600) @@ (<<"R","b">> :> 1520000) @@
  (<<"S","r">> :> 1610500) @@ (<<"Y">> :> 1703800) @@ (<<"Z","r">> :> 1799800) @@
  (<<"N","b">> :> 1898600) @@ (<<"M","o">> :> 2000000) @@ (<<"A","g">> :> 2551400) @@
  (<<"S","n">> :> 2920000) @@ (<<"I">> :> 3316900)


\* element in K_EDGES
InK_EDGES(element) == element \in DOMAIN K_EDGES

-----------------------------------------------------------------------------
(* MDR endpoints: BASES, by position.                                      *)

NumBases == 2
BASES == 1..NumBases

-----------------------------------------------------------------------------
(* JSON values of the catalogue.  A record is a function from its keys;    *)
(* a nested value is tagged: <<"dict", f>>, <<"list", seq>>, <<"text", s>> *)
(* (a str the code lowers and searches), <<"str", s>>, <<"int", n>>.       *)

JDict(f) == <<"dict", f>>
JList(s) == <<"list", s>>
JText(s) == <<"text", s>>
EmptyDict == <<>>

IsDict(v) == v[1] = "dict"
IsList(v) == v[1] = "list"

\* Python truth value of a JSON value
Truthy(v) ==
  CASE v[1] = "None" -> FALSE
    [] v[1] = "str"  -> v[2] # ""
    [] v[1] = "text" -> v[2] # <<>>
    [] v[1] = "int"  -> v[2] # 0
    [] v[1] = "dict" -> DOMAIN v[2] # {}
    [] v[1] = "list" -> v[2] # <<>>
    [] OTHER -> TRUE

\* d.get(k), None when absent
Get(d, k) == IF k \in DOMAIN d THEN d[k] ELSE JNone

\* str(n) of an int n >= 0
RECURSIVE int_str(_)
int_str(n) ==
  IF n < 10 THEN DigitChars[n + 1]
  ELSE int_str(n \div 10) \o DigitChars[(n % 10) + 1]

\* str(v) of an id value
Str(v) ==
  CASE v[1] = "str"  -> v[2]
    [] v[1] = "int"  -> int_str(v[2])
    [] v[1] = "None" -> "None"
    [] OTHER -> "object"

\* the dicts among the elements of a JSON list, in order
RECURSIVE DictsOf(_)
DictsOf(s) ==
  IF s = <<>> THEN <<>>
  ELSE IF IsDict(Head(s)) THEN <<Head(s)[2]>> \o DictsOf(Tail(s))
  ELSE DictsOf(Tail(s))

\* js.get(key) of a body whose items are kept in order
ItemGet(items, key) ==
  IF \E i \in DOMAIN items : items[i].k = key
  THEN items[CHOOSE i \in DOMAIN items : items[i].k = key].v
  ELSE JNone

\* the loop over ("data", "items", "results") of _iter_api_records
RECURSIVE iter_keys(_, _)
iter_keys(items, keys) ==
  IF keys = <<>> THEN
    IF \A i \in DOMAIN items : IsDict(items[i].v)
    THEN [i \in DOMAIN items |-> items[i].v[2]]
    ELSE <<>>
  ELSE IF IsList(ItemGet(items, Head(keys))) THEN DictsOf(ItemGet(items, Head(keys))[2])
  ELSE iter_keys(items, Tail(keys))

\* _iter_api_records looking for the key "data" only; C12 tells it from
\* _iter_api_records
_iter_api_records_data_only(js) ==
  IF IsList(js) THEN DictsOf(js[2])
  ELSE IF js[1] = "odict" THEN iter_keys(js[2], <<"data">>)
  ELSE <<>>

\* _iter_api_records looking at the keys in the reverse order; C25 tells it
\* from _iter_api_records
_iter_api_records_results_first(js) ==
  IF IsList(js) THEN DictsOf(js[2])
  ELSE IF js[1] = "odict" THEN iter_keys(js[2], <<"results", "items", "data">>)
  ELSE <<>>

\* list(_iter_api_records(js)); a body dict is <<"odict", items>>
_iter_api_records(js) ==
  IF IsList(js) THEN DictsOf(js[2])
  ELSE IF js[1] = "odict" THEN iter_keys(js[2], <<"data", "items", "results">>)
  ELSE <<>>

\* _try_get: none says that it returns None, r is the response otherwise;
\* caught lists the exceptions it swallows
_try_get(resp) ==
  CASE resp.kind = "exc"   -> [none |-> TRUE, r |-> resp, caught |-> <<"_try_get">>]
    [] resp.kind = "notok" -> [none |-> TRUE, r |-> resp, caught |-> <<>>]
    [] OTHER               -> [none |-> FALSE, r |-> resp, caught |-> <<>>]

\* _search_page: the records of one page, with the exceptions caught on the way
_search_page(resp) ==
  LET t == _try_get(resp) IN
  IF t.none THEN [recs |-> <<>>, caught |-> t.caught]
  ELSE IF t.r.kind = "nonjson" THEN [recs |-> <<>>, caught |-> <<"_search_page">>]
  ELSE [recs |-> _iter_api_records(t.r.js), caught |-> <<>>]

\* get_dataset_id that looks at data.id before the attributes; C26 tells it
\* from get_dataset_id
get_dataset_id_data_first(rec) ==
  IF "id" \in DOMAIN rec /\ rec["id"][1] \in {"str", "int"} THEN Ok(Str(rec["id"]))
  ELSE
    LET a == Get(rec, "attributes")
        attrs == IF Truthy(a) /\ IsDict(a) THEN a[2] ELSE EmptyDict
        d == Get(rec, "data")
        dat == IF Truthy(d) /\ IsDict(d) THEN d[2] ELSE EmptyDict
    IN  IF "id" \in DOMAIN dat THEN Ok(Str(dat["id"]))
        ELSE IF "uuid" \in DOMAIN attrs THEN Ok(Str(attrs["uuid"]))
        ELSE IF "id" \in DOMAIN attrs THEN Ok(Str(attrs["id"]))
        ELSE IF "identifier" \in DOMAIN attrs THEN Ok(Str(attrs["identifier"]))
        ELSE Raise("KeyError")

\* get_dataset_id; "k in attrs" and "'id' in data" raise TypeError on a
\* number other than 0, and find nothing in a list of numbers
get_dataset_id(rec) ==
  IF "id" \in DOMAIN rec /\ rec["id"][1] \in {"str", "int"} THEN Ok(Str(rec["id"]))
  ELSE
    LET a == Get(rec, "attributes")
        attrs == IF Truthy(a) /\ IsDict(a) THEN a[2] ELSE EmptyDict
        d == Get(rec, "data")
        dat == IF Truthy(d) /\ IsDict(d) THEN d[2] ELSE EmptyDict
    IN  IF Truthy(a) /\ a[1] = "int" THEN Raise("TypeError")
        ELSE IF "uuid" \in DOMAIN attrs THEN Ok(Str(attrs["uuid"]))
        ELSE IF "id" \in DOMAIN attrs THEN Ok(Str(attrs["id"]))
        ELSE IF "identifier" \in DOMAIN attrs THEN Ok(Str(attrs["identifier"]))
        ELSE IF Truthy(d) /\ d[1] = "int" THEN Raise("TypeError")
        ELSE IF "id" \in DOMAIN dat THEN Ok(Str(dat["id"]))
        ELSE Raise("KeyError")

-----------------------------------------------------------------------------
(* Selection of a dataset (fetch_convert_one, step 1).                     *)

\* rec.get("attributes") or {}, as fetch_convert_one uses it: calling .get
\* on a truthy value that is no dict raises AttributeError
attrs_of(rec) ==
  LET a == Get(rec, "attributes") IN
  IF ~Truthy(a) THEN Ok(EmptyDict)
  ELSE IF IsDict(a) THEN Ok(a[2])
  ELSE Raise("AttributeError")

\* attrs.get(key) or rec.get(key) or "": the characters of the text
text_of(attrs, rec, key) ==
  LET v == IF Truthy(Get(attrs, key)) THEN Get(attrs, key)
           ELSE IF Truthy(Get(rec, key)) THEN Get(rec, key)
           ELSE JText(<<>>)
  IN  IF v[1] = "text" THEN Ok(v[2]) ELSE Raise("AttributeError")

Xafs == <<"x", "a", "f", "s">>

\* the test of line 287 on the lowered title and description
mentions(element, title, desc) ==
  /\ Contains(Lower(element), Lower(title) \o Lower(desc))
  /\ (Contains(Xafs, Lower(title)) \/ Contains(Xafs, Lower(desc)))

\* select_step with a remembered fallback that a later preferred record does
\* not replace; C2 tells it from select_step
select_step_keep_fallback(rec, element, cid, ctitle) ==
  [exc |-> FALSE, brk |-> FALSE,
   id |-> IF cid[1] = "None" /\ get_dataset_id(rec).ok
          THEN JStr(get_dataset_id(rec).val) ELSE cid,
   title |-> ctitle, caught |-> <<>>]

\* select_step without the break of line 290: the loop goes on after a
\* preferred record; C29 tells it from select_step
select_step_no_break(rec, element, cid, ctitle) ==
  LET a == attrs_of(rec) IN
  IF ~a.ok THEN [exc |-> TRUE, brk |-> FALSE, id |-> cid, title |-> ctitle, caught |-> <<>>]
  ELSE
    LET t == text_of(a.val, rec, "title")
        d == text_of(a.val, rec, "description")
    IN
    IF ~t.ok \/ ~d.ok
    THEN [exc |-> TRUE, brk |-> FALSE, id |-> cid, title |-> ctitle, caught |-> <<>>]
    ELSE
      LET r == get_dataset_id(rec) IN
      IF mentions(element, t.val, d.val) \/ cid[1] = "None" THEN
        IF r.ok
        THEN [exc |-> FALSE, brk |-> FALSE, id |-> JStr(r.val), title |-> t.val, caught |-> <<>>]
        ELSE [exc |-> FALSE, brk |-> FALSE, id |-> cid, title |-> ctitle,
              caught |-> <<"get_dataset_id">>]
      ELSE [exc |-> FALSE, brk |-> FALSE, id |-> cid, title |-> ctitle, caught |-> <<>>]

\* One iteration of the loop of lines 282-300 on rec.  brk: the loop breaks;
\* exc: an exception leaves fetch_convert_one; caught: the exceptions that the
\* iteration swallows.
select_step(rec, element, cid, ctitle) ==
  LET a == attrs_of(rec) IN
  IF ~a.ok THEN [exc |-> TRUE, brk |-> FALSE, id |-> cid, title |-> ctitle, caught |-> <<>>]
  ELSE
    LET t == text_of(a.val, rec, "title")
        d == text_of(a.val, rec, "description")
    IN
    IF ~t.ok \/ ~d.ok
    THEN [exc |-> TRUE, brk |-> FALSE, id |-> cid, title |-> ctitle, caught |-> <<>>]
    ELSE
      LET r == get_dataset_id(rec) IN
      IF mentions(element, t.val, d.val) THEN
        IF r.ok
        THEN [exc |-> FALSE, brk |-> TRUE, id |-> JStr(r.val), title |-> t.val, caught |-> <<>>]
        ELSE [exc |-> FALSE, brk |-> FALSE, id |-> cid, title |-> ctitle,
              caught |-> <<"get_dataset_id">>]
      ELSE IF cid[1] = "None" THEN
        IF r.ok
        THEN [exc |-> FALSE, brk |-> FALSE, id |-> JStr(r.val), title |-> t.val, caught |-> <<>>]
        ELSE [exc |-> FALSE, brk |-> FALSE, id |-> cid, title |-> ctitle,
              caught |-> <<"get_dataset_id">>]
      ELSE [exc |-> FALSE, brk |-> FALSE, id |-> cid, title |-> ctitle, caught |-> <<>>]

-----------------------------------------------------------------------------
(* The search_mdr generator.  Its frame: base and page are the loop         *)
(* variables, got_any the flag, recs the records of the current page not    *)
(* yet yielded, done whether it has returned.                               *)

NewGen == [base |-> 1, page |-> 1, got_any |-> FALSE, recs |-> <<>>, done |-> FALSE]

\* after_pages without the return of line 143: every base is searched; C1
\* tells it from after_pages
after_pages_every_base(g) ==
  IF g.base = NumBases
  THEN [g EXCEPT !.done = TRUE, !.recs = <<>>]
  ELSE [g EXCEPT !.base = g.base + 1, !.page = 1, !.got_any = FALSE, !.recs = <<>>]

\* after the page loop of one base (lines 142-143 and the next base)
after_pages(g) ==
  IF g.got_any \/ g.base = NumBases
  THEN [g EXCEPT !.done = TRUE, !.recs = <<>>]
  ELSE [g EXCEPT !.base = g.base + 1, !.page = 1, !.got_any = FALSE, !.recs = <<>>]

\* after_request without the break of line 138: an empty page is followed by
\* the next page; C24 tells it from after_request
after_request_next_page(g, recs) ==
  IF recs = <<>>
  THEN IF g.page < max_pages THEN [g EXCEPT !.page = g.page + 1] ELSE after_pages(g)
  ELSE [g EXCEPT !.got_any = TRUE, !.recs = recs]

\* the generator after the page request of (g.base, g.page) returned recs
after_request(g, recs) ==
  IF recs = <<>> THEN after_pages(g)
  ELSE [g EXCEPT !.got_any = TRUE, !.recs = recs]

\* after_yield without the step to the next page; C13 tells it from
\* after_yield
after_yield_same_page(g) ==
  IF Len(g.recs) > 1 THEN [g EXCEPT !.recs = Tail(g.recs)]
  ELSE [g EXCEPT !.recs = <<>>]

\* the generator after it has yielded the head of g.recs and is resumed
after_yield(g) ==
  IF Len(g.recs) > 1 THEN [g EXCEPT !.recs = Tail(g.recs)]
  ELSE IF g.page < max_pages THEN [g EXCEPT !.recs = <<>>, !.page = g.page + 1]
  ELSE after_pages([g EXCEPT !.recs = <<>>])

-----------------------------------------------------------------------------
(* Archives and spectrum files.  The bytes of a download are <<"empty">>,  *)
(* <<"garbage">> (no zip archive) or <<"zip", entries>>, entries being the *)
(* archive's members [name, data] in the order of namelist().  The bytes   *)
(* of a member are its lines; no line at all is b"".  A line is            *)
(*   [kind |-> "hdr", k, v]   '#' line that the pattern of line 198 matches *)
(*   [kind |-> "comment"]     any other line starting with '#'             *)
(*   [kind |-> "blank"]       a line that strips to nothing                *)
(*   [kind |-> "data", toks]  any other line, toks its values as           *)
(*                            np.genfromtxt reads them (NaN: no number)    *)

Ext_xdi == <<".", "x", "d", "i">>
Ext_dat == <<".", "d", "a", "t">>
Ext_txt == <<".", "t", "x", "t">>
Ext_csv == <<".", "c", "s", "v">>

\* rank without the length of the name; C10 tells it from rank
rank_class_only(name) ==
  LET n == Lower(name) IN
  IF EndsWith(n, Ext_xdi) THEN <<0, 0>>
  ELSE IF EndsWith(n, Ext_dat) THEN <<1, 0>>
  ELSE IF EndsWith(n, Ext_txt) THEN <<2, 0>>
  ELSE IF EndsWith(n, Ext_csv) THEN <<3, 0>>
  ELSE <<9, 0>>

\* rank(name) of extract_first_spectrum: <<class, len>>, lower is better
rank(name) ==
  LET n == Lower(name) IN
  IF EndsWith(n, Ext_xdi) THEN <<0, Len(n)>>
  ELSE IF EndsWith(n, Ext_dat) THEN <<1, Len(n)>>
  ELSE IF EndsWith(n, Ext_txt) THEN <<2, Len(n)>>
  ELSE IF EndsWith(n, Ext_csv) THEN <<3, Len(n)>>
  ELSE <<9, Len(n)>>

\* tuple comparison of two rank keys
rank_less(a, b) == a[1] < b[1] \/ (a[1] = b[1] /\ a[2] < b[2])

\* names.sort(key=rank): a stable sort, by insertion from the left
RECURSIVE insert_by_rank(_, _)
insert_by_rank(sorted, name) ==
  IF sorted = <<>> THEN <<name>>
  ELSE IF rank_less(rank(name), rank(Head(sorted))) THEN <<name>> \o sorted
  ELSE <<Head(sorted)>> \o insert_by_rank(Tail(sorted), name)
RECURSIVE sort_by_rank(_, _)
sort_by_rank(names, sorted) ==
  IF names = <<>> THEN sorted
  ELSE sort_by_rank(Tail(names), insert_by_rank(sorted, Head(names)))

\* z.namelist() without the directory entries
member_names(entries) ==
  LET keep == SelectSeq(entries, LAMBDA e : ~EndsWith(e.name, <<"/">>))
  IN  [i \in DOMAIN keep |-> keep[i].name]

\* z.open(name).read(): the member of that name (the last one so named)
read_member(entries, name) ==
  entries[CHOOSE i \in DOMAIN entries :
            /\ entries[i].name = name
            /\ \A j \in DOMAIN entries : entries[j].name = name => j <= i].data

\* the loop giving up at the first recognised member that is empty; C11
\* tells it from first_readable
RECURSIVE first_readable_top_only(_, _)
first_readable_top_only(entries, names) ==
  IF names = <<>> THEN Raise("RuntimeError: No spectrum-like file")
  ELSE IF rank(Head(names))[1] >= 9 THEN first_readable_top_only(entries, Tail(names))
  ELSE IF read_member(entries, Head(names)) # <<>>
       THEN Ok([name |-> Head(names), data |-> read_member(entries, Head(names))])
  ELSE Raise("RuntimeError: No spectrum-like file")

\* the loop of lines 183-189 over the sorted names
RECURSIVE first_readable(_, _)
first_readable(entries, names) ==
  IF names = <<>> THEN Raise("RuntimeError: No spectrum-like file")
  ELSE IF rank(Head(names))[1] >= 9 THEN first_readable(entries, Tail(names))
  ELSE IF read_member(entries, Head(names)) # <<>>
       THEN Ok([name |-> Head(names), data |-> read_member(entries, Head(names))])
  ELSE first_readable(entries, Tail(names))

extract_first_spectrum(zb) ==
  IF zb[1] # "zip" THEN Raise("BadZipFile")
  ELSE first_readable(zb[2], sort_by_rank(member_names(zb[2]), <<>>))

-----------------------------------------------------------------------------
(* Parsing.                                                                *)

\* header[k] = v on the ordered dict: a known key keeps its position
dict_set(items, k, v) ==
  IF \E i \in DOMAIN items : items[i].k = k
  THEN [i \in DOMAIN items |-> IF items[i].k = k THEN [k |-> k, v |-> v] ELSE items[i]]
  ELSE Append(items, [k |-> k, v |-> v])

\* the loop of lines 196-203: <<header, text_lines>>
RECURSIVE split_lines(_, _, _)
split_lines(lines, hdr, text) ==
  IF lines = <<>> THEN <<hdr, text>>
  ELSE LET ln == Head(lines) IN
       IF ln.kind = "hdr"
       THEN split_lines(Tail(lines), dict_set(hdr, Strip(ln.k), Strip(ln.v)), text)
       ELSE IF ln.kind = "data" THEN split_lines(Tail(lines), hdr, Append(text, ln))
       ELSE split_lines(Tail(lines), hdr, text)

\* np.genfromtxt(text_lines): lines without a value are skipped, rows of
\* different lengths are an error, and the table is squeezed: dimensions of
\* size 1 disappear.  ndim is the result's number of dimensions, rows the
\* table before the squeeze
genfromtxt(text_lines) ==
  LET full == SelectSeq(text_lines, LAMBDA ln : ln.toks # <<>>)
      rows == [i \in DOMAIN full |-> full[i].toks]
  IN  IF rows = <<>> THEN Ok([ndim |-> 1, rows |-> <<>>, vec |-> <<>>])
      ELSE IF \E i \in DOMAIN rows : Len(rows[i]) # Len(rows[1]) THEN Raise("ValueError")
      ELSE IF Len(rows) = 1 /\ Len(rows[1]) = 1
           THEN Ok([ndim |-> 0, rows |-> rows, vec |-> <<>>])
      ELSE IF Len(rows) = 1 THEN Ok([ndim |-> 1, rows |-> rows, vec |-> rows[1]])
      ELSE IF Len(rows[1]) = 1
           THEN Ok([ndim |-> 1, rows |-> rows, vec |-> [i \in DOMAIN rows |-> rows[i][1]]])
      ELSE Ok([ndim |-> 2, rows |-> rows, vec |-> <<>>])

\* k.split('.')[-1]
last_part(k) == LET p == Split(k, ".") IN p[Len(p)]

Column == <<"c", "o", "l", "u", "m", "n">>

\* find_idx that takes N of Column.N for the index; C7 and C8 tell it from
\* find_idx
RECURSIVE find_idx_no_offset(_, _)
find_idx_no_offset(hdr, label_sub) ==
  IF hdr = <<>> THEN JNone
  ELSE LET k == Head(hdr).k
           v == Head(hdr).v
       IN  IF /\ StartsWith(Lower(k), Column)
              /\ Contains(label_sub, Lower(v))
              /\ IsDigitStr(last_part(k))
           THEN JInt(IntOf(last_part(k)))
           ELSE find_idx_no_offset(Tail(hdr), label_sub)

\* find_idx of parse_xdi_or_ascii: the index, or None
RECURSIVE find_idx(_, _)
find_idx(hdr, label_sub) ==
  IF hdr = <<>> THEN JNone
  ELSE LET k == Head(hdr).k
           v == Head(hdr).v
       IN  IF /\ StartsWith(Lower(k), Column)
              /\ Contains(label_sub, Lower(v))
              /\ IsDigitStr(last_part(k))
           THEN JInt(IntOf(last_part(k)) - 1)
           ELSE find_idx(Tail(hdr), label_sub)

\* a or b of Python
py_or(a, b) == IF Truthy(a) THEN a ELSE b

\* arr[:, i], i possibly negative (from the end)
column(arr, i) ==
  [r \in DOMAIN arr |-> arr[r][IF i < 0 THEN Len(arr[r]) + i + 1 ELSE i + 1]]

\* np.clip(x, 1e-12, np.inf)
clip(x) == IF ~IsNum(x) THEN x ELSE IF x[2] <= 0 THEN <<"floor", 0>> ELSE x
\* -np.log(It / I0), kept symbolic
neg_log(it, i0) == <<"neglog", clip(it), clip(i0)>>

parse_xdi_or_ascii(raw) ==
  LET hl == split_lines(raw, <<>>, <<>>)
      hdr == hl[1]
      text_lines == hl[2]
  IN
  IF text_lines = <<>> THEN Raise("RuntimeError: No numeric data lines")
  ELSE
    LET g == genfromtxt(text_lines) IN
    IF ~g.ok THEN g
    ELSE IF g.val.ndim = 0 THEN Raise("IndexError")
    ELSE
      LET arr == IF g.val.ndim = 1 THEN <<g.val.vec>> ELSE g.val.rows
          ncols == Len(arr[1])
      IN
      IF ncols < 2 THEN Raise("RuntimeError: Numeric data has fewer than 2 columns")
      ELSE
        LET E == column(arr, 0)
            idx_mu == find_idx(hdr, <<"m", "u">>)
            idx_i0 == find_idx(hdr, <<"i", "0">>)
            idx_it == py_or(find_idx(hdr, <<"i", "t", "r", "a", "n", "s">>),
                            py_or(find_idx(hdr, <<"i", "t", "r">>),
                                  find_idx(hdr, <<"i", "t">>)))
            Y == IF idx_mu[1] # "None" /\ ncols > idx_mu[2] THEN column(arr, idx_mu[2])
                 ELSE IF /\ idx_i0[1] # "None"
                         /\ idx_it[1] # "None"
                         /\ ncols > idx_i0[2]
                         /\ ncols > idx_it[2]
                      THEN LET I0 == column(arr, idx_i0[2])
                               It == column(arr, idx_it[2])
                           IN  [r \in DOMAIN arr |-> neg_log(It[r], I0[r])]
                 ELSE column(arr, 1)
        IN  Ok([header |-> hdr, data |-> [r \in DOMAIN arr |-> <<E[r], Y[r]>>]])

-----------------------------------------------------------------------------
(* Edge energy.                                                            *)

\* float(s) for s = digits [ "." digits ], in units of 0.01, and for "nan";
\* any other text is a ValueError
parse_float(s) ==
  LET p == Split(s, ".") IN
  IF Lower(s) = <<"n", "a", "n">> THEN Ok(NaN)
  ELSE IF Len(p) = 1 /\ IsDigitStr(p[1]) THEN Ok(Num(100 * IntOf(p[1])))
  ELSE IF Len(p) = 2 /\ IsDigitStr(p[1]) /\ IsDigitStr(p[2]) /\ Len(p[2]) <= 2
       THEN Ok(Num(100 * IntOf(p[1])
                   + (IF Len(p[2]) = 1 THEN 10 * IntOf(p[2]) ELSE IntOf(p[2]))))
  ELSE Raise("ValueError")

\* header[k] of the ordered dict
dict_has(items, k) == \E i \in DOMAIN items : items[i].k = k
dict_get(items, k) == items[CHOOSE i \in DOMAIN items : items[i].k = k].v

RECURSIVE insert_num(_, _)
insert_num(sorted, x) ==
  IF sorted = <<>> THEN <<x>>
  ELSE IF x[2] < Head(sorted)[2] THEN <<x>> \o sorted
  ELSE <<Head(sorted)>> \o insert_num(Tail(sorted), x)
RECURSIVE sort_nums(_, _)
sort_nums(xs, sorted) ==
  IF xs = <<>> THEN sorted ELSE sort_nums(Tail(xs), insert_num(sorted, Head(xs)))

\* float(np.median(E)); NaN when E holds a NaN or is empty
median(E) ==
  IF E = <<>> \/ \E i \in DOMAIN E : ~IsNum(E[i]) THEN NaN
  ELSE LET s == sort_nums(E, <<>>)
           n == Len(s)
       IN  IF n % 2 = 1 THEN s[(n + 1) \div 2]
           ELSE Num((s[n \div 2][2] + s[n \div 2 + 1][2]) \div 2)

Key_ScanEdgeEnergy ==
  <<"S","c","a","n",".","e","d","g","e","_","e","n","e","r","g","y">>
Key_EdgeEnergy == <<"E","d","g","e",".","e","n","e","r","g","y">>
Key_EdgeE0 == <<"E","d","g","e",".","E","0">>

\* the loop of lines 240-245 over the header keys
RECURSIVE e0_from_header(_, _)
e0_from_header(hdr, keys) ==
  IF keys = <<>> THEN JNone
  ELSE IF dict_has(hdr, Head(keys)) /\ parse_float(dict_get(hdr, Head(keys))).ok
       THEN parse_float(dict_get(hdr, Head(keys))).val
  ELSE e0_from_header(hdr, Tail(keys))

\* guess_e0 with the table of K edges consulted before the header
guess_e0_table_first(hdr, element, edge, E) ==
  LET h == e0_from_header(hdr, <<Key_ScanEdgeEnergy, Key_EdgeEnergy, Key_EdgeE0>>) IN
  IF StartsWith(Upper(edge), <<"K">>) /\ InK_EDGES(element)
  THEN Ok(Num(K_EDGES[element]))
  ELSE IF h[1] # "None" THEN Ok(h)
  ELSE IF E[1] # "None" THEN Ok(median(E[2]))
  ELSE Raise("RuntimeError: Could not determine edge energy E0")

\* guess_e0; E is <<"array", values>>, or JNone
guess_e0(hdr, element, edge, E) ==
  LET h == e0_from_header(hdr, <<Key_ScanEdgeEnergy, Key_EdgeEnergy, Key_EdgeE0>>) IN
  IF h[1] # "None" THEN Ok(h)
  ELSE IF StartsWith(Upper(edge), <<"K">>) /\ InK_EDGES(element)
       THEN Ok(Num(K_EDGES[element]))
  ELSE IF E[1] # "None" THEN Ok(median(E[2]))
  ELSE Raise("RuntimeError: Could not determine edge energy E0")

\* the E column of data
energies(d) == [r \in DOMAIN d |-> d[r][1]]

\* lines 334-337 and E[mask]: the rows of d inside the window around e, all
\* rows when none is
windowed(d, e, window) ==
  LET inside(x) == /\ IsNum(x) /\ IsNum(e)
                   /\ x[2] >= e[2] + window[1]
                   /\ x[2] <= e[2] + window[2]
      w == SelectSeq(d, LAMBDA row : inside(row[1]))
  IN  IF w = <<>> THEN d ELSE w

-----------------------------------------------------------------------------
(* Normalisation, as far as the batch needs it: which of the two branches  *)
(* of normalize_xanes is taken.  pre and post are the default windows.     *)

in_window(x, e, lo, hi) ==
  IsNum(x) /\ IsNum(e) /\ x[2] >= e[2] + lo /\ x[2] <= e[2] + hi

\* lines 254-256: "minmax" when the pre-edge or the post-edge mask is empty
normalize_branch(E, e) ==
  IF /\ \E i \in DOMAIN E : in_window(E[i], e, -20000, -5000)
     /\ \E i \in DOMAIN E : in_window(E[i], e, 15000, 80000)
  THEN "fit" ELSE "minmax"

-----------------------------------------------------------------------------
(* Printed lines.  A line names the element, dataset id and file that its  *)
(* text holds (<<>> and "" when it holds none).                            *)

Line(msg, element, id, file) == [msg |-> msg, element |-> element, id |-> id, file |-> file]

-----------------------------------------------------------------------------
(* State.                                                                  *)

mainVars == <<argv, pc, elements, idx, ok, exit_code, returned>>
searchVars == <<gen, chosen_id, chosen_title, served, yielded>>
dlVars == <<dl_tried, zip_url, zip_bytes>>
fileVars == <<spec_name, spec_bytes, header, data, e0>>
outVars == <<files, outdir_exists>>
callVars == <<call, outcome>>

\* no function is called on its own
NoCall == [fn |-> "none"]
NotCalled == call = NoCall /\ outcome = <<"none">>

convVars == <<curves_dir, conv_pc, listing, pos, printed, saves>>
otherVars == <<callVars, convVars>>
\* convert.py is not run
NotConverting ==
  /\ curves_dir = <<"absent">>
  /\ conv_pc = "idle"
  /\ listing = <<>>
  /\ pos = 0
  /\ printed = <<>>
  /\ saves = <<>>
Idle == NotCalled /\ NotConverting

\* the element fetch_convert_one is working on
elem == elements[idx]

\* the locals of fetch_convert_one before its first statement
FreshLocals ==
  /\ gen = NewGen
  /\ chosen_id = JNone
  /\ chosen_title = <<>>
  /\ served = <<>>
  /\ yielded = <<>>
  /\ dl_tried = <<>>
  /\ zip_url = 0
  /\ zip_bytes = <<"empty">>
  /\ spec_name = <<>>
  /\ spec_bytes = <<>>
  /\ header = <<>>
  /\ data = <<>>
  /\ e0 = JNone

\* the same of the next state: the frame of a new call
ResetLocals ==
  /\ gen' = NewGen
  /\ chosen_id' = JNone
  /\ chosen_title' = <<>>
  /\ served' = <<>>
  /\ yielded' = <<>>
  /\ dl_tried' = <<>>
  /\ zip_url' = 0
  /\ zip_bytes' = <<"empty">>
  /\ spec_name' = <<>>
  /\ spec_bytes' = <<>>
  /\ header' = <<>>
  /\ data' = <<>>
  /\ e0' = JNone

\* main before it reads the command line a
MainStart(a) ==
  /\ argv = a
  /\ pc = "start"
  /\ elements = <<>>
  /\ idx = 1
  /\ ok = 0
  /\ exit_code = -1
  /\ returned = <<>>
  /\ stage = "idle"
  /\ files = {}
  /\ outdir_exists = FALSE
  /\ diag = <<>>
  /\ caught = <<>>

-----------------------------------------------------------------------------
(* main.                                                                   *)

\* lines 370-378.  The [ERROR] line holds the message of the exception (the
\* number of an unknown Z), no element symbol.
ParseArgs ==
  /\ pc = "start"
  /\ LET r == parse_element_list(argv.element) IN
     IF r.ok
     THEN /\ elements' = r.val
          /\ pc' = "loop"
          /\ UNCHANGED <<exit_code, diag, caught>>
     ELSE /\ diag' = <<Line("[ERROR]", <<>>, "", <<>>)>>
          /\ caught' = <<"main: parse_element_list">>
          /\ exit_code' = 2
          /\ pc' = "exit"
          /\ UNCHANGED elements
  /\ UNCHANGED <<argv, idx, ok, returned, stage>>
  /\ UNCHANGED <<searchVars, dlVars, fileVars, outVars>>
  /\ UNCHANGED otherVars

\* line 381: the call of fetch_convert_one for the next element, lines 280-281
StartElement ==
  /\ pc = "loop"
  /\ stage = "idle"
  /\ idx <= Len(elements)
  /\ stage' = "search"
  /\ ResetLocals
  /\ diag' = <<>>
  /\ caught' = <<>>
  /\ UNCHANGED <<mainVars, outVars>>
  /\ UNCHANGED otherVars

\* main exiting with the status of failure as soon as one element has
\* failed; C5 tells it from MainExit
MainExit_any_failure ==
  /\ pc = "loop"
  /\ stage = "idle"
  /\ idx > Len(elements)
  /\ pc' = "exit"
  /\ exit_code' = IF ok < Len(elements) THEN 1 ELSE 0
  /\ caught' = <<>>
  /\ UNCHANGED <<argv, elements, idx, ok, returned, stage, diag>>
  /\ UNCHANGED <<searchVars, dlVars, fileVars, outVars>>
  /\ UNCHANGED otherVars

\* lines 389-390
MainExit ==
  /\ pc = "loop"
  /\ stage = "idle"
  /\ idx > Len(elements)
  /\ pc' = "exit"
  /\ exit_code' = IF ok = 0 THEN 1 ELSE 0
  /\ caught' = <<>>
  /\ UNCHANGED <<argv, elements, idx, ok, returned, stage, diag>>
  /\ UNCHANGED <<searchVars, dlVars, fileVars, outVars>>
  /\ UNCHANGED otherVars

\* fetch_convert_one ends and main goes on (lines 382-387): result is "path"
\* (it returned a path), "none" (it returned None) or "raised" (an exception
\* left it, which main catches); lines are what was printed on the way
Returns(result, lines, c) ==
  /\ stage' = "idle"
  /\ idx' = idx + 1
  /\ returned' = Append(returned, result)
  /\ ok' = IF result = "path" THEN ok + 1 ELSE ok
  /\ diag' = diag \o lines
             \o (IF result = "raised"
                 THEN <<Line("[WARN] Failed for", elem, "", <<>>)>> ELSE <<>>)
  /\ caught' = c \o (IF result = "raised" THEN <<"main">> ELSE <<>>)
  /\ UNCHANGED <<argv, pc, elements, exit_code>>

-----------------------------------------------------------------------------
(* fetch_convert_one, step 1: search and selection.                        *)

\* search_mdr requests page gen.page of base gen.base; the catalogue answers
\* with one of Resps
SearchPage(Resps) ==
  /\ pc = "loop"
  /\ stage = "search"
  /\ gen.recs = <<>>
  /\ ~gen.done
  /\ \E resp \in Resps :
       LET p == _search_page(resp)
           g == after_request(gen, p.recs)
       IN  /\ gen' = g
           /\ served' = Append(served, [base |-> gen.base, page |-> gen.page, recs |-> p.recs])
           /\ caught' = p.caught
           /\ stage' = IF g.done THEN "selected" ELSE "search"
  /\ UNCHANGED <<chosen_id, chosen_title, yielded, diag>>
  /\ UNCHANGED <<mainVars, dlVars, fileVars, outVars>>
  /\ UNCHANGED otherVars

\* search_mdr yields the next record and the loop body (lines 284-300) runs
SelectRecord ==
  /\ pc = "loop"
  /\ stage = "search"
  /\ gen.recs # <<>>
  /\ LET rec == Head(gen.recs)
         s == select_step(rec, elem, chosen_id, chosen_title)
         g == after_yield(gen)
     IN  /\ yielded' = Append(yielded, [base |-> gen.base, rec |-> rec])
         /\ IF s.exc
            THEN /\ Returns("raised", <<>>, <<>>)
                 /\ UNCHANGED <<gen, chosen_id, chosen_title>>
            ELSE /\ chosen_id' = s.id
                 /\ chosen_title' = s.title
                 /\ caught' = s.caught
                 /\ gen' = IF s.brk THEN gen ELSE g
                 /\ stage' = IF s.brk \/ g.done THEN "selected" ELSE "search"
                 /\ UNCHANGED <<mainVars, diag>>
  /\ UNCHANGED <<served, dlVars, fileVars, outVars>>
  /\ UNCHANGED otherVars

\* lines 301-303
CheckChosen ==
  /\ pc = "loop"
  /\ stage = "selected"
  /\ IF chosen_id[1] = "None" \/ chosen_id[2] = ""
     THEN Returns("none", <<Line("[WARN] No MDR dataset found", elem, "", <<>>)>>, <<>>)
     ELSE /\ stage' = "download"
          /\ caught' = <<>>
          /\ UNCHANGED <<mainVars, diag>>
  /\ UNCHANGED <<searchVars, dlVars, fileVars, outVars>>
  /\ UNCHANGED otherVars

-----------------------------------------------------------------------------
(* fetch_convert_one, steps 2-4: download, extract, parse.                 *)

\* download_zip requests the archive from the next base; the mirror answers
\* with one of Resps.  dl_tried is the history of requests and answers.
DownloadTry(Resps) ==
  /\ pc = "loop"
  /\ stage = "download"
  /\ Len(dl_tried) < NumBases
  /\ \E resp \in Resps :
       LET t == _try_get(resp)
           base == Len(dl_tried) + 1
       IN  /\ dl_tried' = Append(dl_tried, [base |-> base, resp |-> resp])
           /\ caught' = t.caught
           /\ IF ~t.none /\ t.r.content # <<"empty">>
              THEN /\ zip_url' = base
                   /\ zip_bytes' = t.r.content
                   /\ stage' = "extract"
              ELSE UNCHANGED <<zip_url, zip_bytes, stage>>
  /\ UNCHANGED <<mainVars, searchVars, fileVars, outVars, diag>>
  /\ UNCHANGED otherVars

\* download_zip giving up after the first base that failed; C3 tells it
\* from DownloadFailed
DownloadFailed_first_base ==
  /\ pc = "loop"
  /\ stage = "download"
  /\ Len(dl_tried) >= 1
  /\ Returns("none", <<Line("[WARN] Failed ZIP download for", elem, "", <<>>)>>,
             <<"fetch_convert_one: download_zip">>)
  /\ UNCHANGED <<searchVars, dlVars, fileVars, outVars>>
  /\ UNCHANGED otherVars

\* line 165 and lines 308-310: every base has been tried
DownloadFailed ==
  /\ pc = "loop"
  /\ stage = "download"
  /\ Len(dl_tried) = NumBases
  /\ Returns("none", <<Line("[WARN] Failed ZIP download for", elem, "", <<>>)>>,
             <<"fetch_convert_one: download_zip">>)
  /\ UNCHANGED <<searchVars, dlVars, fileVars, outVars>>
  /\ UNCHANGED otherVars

\* lines 313-317
Extract ==
  /\ pc = "loop"
  /\ stage = "extract"
  /\ LET r == extract_first_spectrum(zip_bytes) IN
     IF r.ok
     THEN /\ spec_name' = r.val.name
          /\ spec_bytes' = r.val.data
          /\ stage' = "parse"
          /\ caught' = <<>>
          /\ UNCHANGED <<mainVars, diag>>
     ELSE /\ Returns("none", <<Line("[WARN] No spectrum file in dataset", <<>>,
                                    chosen_id[2], <<>>)>>,
                     <<"fetch_convert_one: extract_first_spectrum">>)
          /\ UNCHANGED <<spec_name, spec_bytes>>
  /\ UNCHANGED <<searchVars, dlVars, header, data, e0, outVars>>
  /\ UNCHANGED otherVars

\* Parse with the output directory made before the parse; C27 tells it from
\* Parse
Parse_mkdir_first ==
  /\ pc = "loop"
  /\ stage = "parse"
  /\ outdir_exists' = TRUE
  /\ LET r == parse_xdi_or_ascii(spec_bytes) IN
     IF r.ok
     THEN /\ header' = r.val.header
          /\ data' = r.val.data
          /\ stage' = "e0"
          /\ caught' = <<>>
          /\ UNCHANGED <<mainVars, diag>>
     ELSE /\ Returns("none", <<Line("[WARN] Failed to parse spectrum", <<>>, "",
                                    spec_name)>>,
                     <<"fetch_convert_one: parse_xdi_or_ascii">>)
          /\ UNCHANGED <<header, data>>
  /\ UNCHANGED <<searchVars, dlVars, spec_name, spec_bytes, e0, files>>
  /\ UNCHANGED otherVars

\* lines 320-324
Parse ==
  /\ pc = "loop"
  /\ stage = "parse"
  /\ LET r == parse_xdi_or_ascii(spec_bytes) IN
     IF r.ok
     THEN /\ header' = r.val.header
          /\ data' = r.val.data
          /\ stage' = "e0"
          /\ caught' = <<>>
          /\ UNCHANGED <<mainVars, diag>>
     ELSE /\ Returns("none", <<Line("[WARN] Failed to parse spectrum", <<>>, "",
                                    spec_name)>>,
                     <<"fetch_convert_one: parse_xdi_or_ascii">>)
          /\ UNCHANGED <<header, data>>
  /\ UNCHANGED <<searchVars, dlVars, spec_name, spec_bytes, e0, outVars>>
  /\ UNCHANGED otherVars

-----------------------------------------------------------------------------
(* fetch_convert_one, steps 5-7: edge energy, normalisation, save.         *)

\* lines 326-333
ResolveE0 ==
  /\ pc = "loop"
  /\ stage = "e0"
  /\ LET r == guess_e0(header, elem, argv.edge, <<"array", energies(data)>>) IN
     IF r.ok
     THEN e0' = r.val /\ caught' = <<>>
     ELSE e0' = median(energies(data)) /\ caught' = <<"fetch_convert_one: guess_e0">>
  /\ stage' = "save"
  /\ UNCHANGED <<mainVars, searchVars, dlVars, spec_name, spec_bytes, header, data>>
  /\ UNCHANGED <<outVars, diag>>
  /\ UNCHANGED otherVars

\* the path that line 350 builds
outpath(element, edge, tag) == <<element, edge, tag>>

\* what the run prints after the file is written (lines 353-356)
saved_lines ==
  <<Line("Saved:", elem, chosen_id[2], spec_name)>>
  \o (IF chosen_title # <<>> THEN <<Line("  Title:", <<>>, "", <<>>)>> ELSE <<>>)
  \o <<Line("  ZIP:", <<>>, chosen_id[2], <<>>)>>

\* lines 334-357.  The content of the file is the windowed rows, with the
\* branch of normalize_xanes that scaled their second column ("raw": none).
\* ndarray.ptp, which the min-max branch calls, does not exist in every NumPy
\* release, and the file system may refuse the write: both are exceptions
\* that leave fetch_convert_one.
Save ==
  /\ pc = "loop"
  /\ stage = "save"
  /\ LET branch == IF argv.normalize THEN normalize_branch(energies(data), e0) ELSE "raw"
         tag == IF argv.normalize THEN "norm" ELSE "raw"
         path == outpath(elem, argv.edge, tag)
         content == [scaled |-> branch, rows |-> windowed(data, e0, argv.window)]
     IN  \/ /\ branch = "minmax"
            /\ Returns("raised", <<>>, <<>>)
            /\ UNCHANGED outVars
         \/ /\ Returns("raised", <<>>, <<>>)
            /\ outdir_exists' \in {outdir_exists, TRUE}
            /\ UNCHANGED files
         \/ /\ outdir_exists' = TRUE
            /\ files' = {f \in files : f.path # path}
                          \cup {[path |-> path, content |-> content]}
            /\ Returns("path", saved_lines, <<>>)
  /\ UNCHANGED <<searchVars, dlVars, fileVars>>
  /\ UNCHANGED otherVars

-----------------------------------------------------------------------------
(* Inputs of the batch model: command lines, catalogue answers, archives.  *)

Tok_fe == <<"f", "e">>
Tok_29 == <<"2", "9">>
Tok_0 == <<"0">>
Sym_Fe == <<"F", "e">>
Sym_Cu == <<"C", "u">>
Edge_K == <<"K">>
Edge_L3 == <<"L", "3">>

TokenInputs == {Tok_fe, Tok_29, Tok_0}

\* -Z: up to MaxElems tokens joined by commas
ElementArgs ==
  {Join(ts, ",") : ts \in UNION {[1..n -> TokenInputs] : n \in 1..MaxElems}}

\* args of main; window is the default of line 364
ArgvInputs ==
  [element : ElementArgs, edge : {Edge_K, Edge_L3}, normalize : BOOLEAN,
   window : {<<-20000, 80000>>}]

Rec_pref == [id |-> JStr("a"), title |-> JText(<<"F", "e", " ", "X", "A", "F", "S">>)]
Rec_plain == [id |-> JInt(7), title |-> JText(<<"C", "u", " ", "f", "o", "i", "l">>)]
Rec_pref_noid == [title |-> JText(<<"X", "A", "F", "S", " ", "o", "f", " ", "F", "e">>)]
Rec_noid == [data |-> JDict([doi |-> JStr("x")])]
Rec_emptyid == [id |-> JStr(""), title |-> JText(<<"C", "u">>)]
Rec_bad == [id |-> JStr("z"), attributes |-> JList(<<JInt(1)>>)]

Exc == [kind |-> "exc"]
NotOk == [kind |-> "notok"]
NonJson == [kind |-> "nonjson"]
\* a 200 answer whose JSON body is the list of the records recs
Page(recs) == [kind |-> "json", js |-> JList([i \in DOMAIN recs |-> JDict(recs[i])])]
\* a 200 answer with the body content
Body(content) == [kind |-> "body", content |-> content]

BatchSearchResponses ==
  {Exc, NonJson, Page(<<>>), Page(<<Rec_pref>>), Page(<<Rec_bad>>)}

Hdr(k, v) == [kind |-> "hdr", k |-> k, v |-> v]
Row(toks) == [kind |-> "data", toks |-> [i \in DOMAIN toks |-> Num(toks[i])]]
Comment == [kind |-> "comment"]
Blank == [kind |-> "blank"]

Key_Column1 == <<"C", "o", "l", "u", "m", "n", ".", "1">>
Val_mu == <<"m", "u">>

\* x.dat of the synthetic fixture: 7000 1.0 / 7005 1.2 / 7500 2.0
File_fixture ==
  <<Hdr(Key_Column1, Val_mu),
    Row(<<700000, 100>>), Row(<<700500, 120>>), Row(<<750000, 200>>)>>
\* rows of different lengths
File_ragged == <<Row(<<700000, 100>>), Row(<<700500>>)>>

Name_x_dat == <<"x", ".", "d", "a", "t">>
Name_x_txt == <<"x", ".", "t", "x", "t">>
Name_readme == <<"r", "e", "a", "d", "m", "e", ".", "m", "d">>

Zip(entries) == <<"zip", entries>>
Member(name, lines) == [name |-> name, data |-> lines]

Zip_fixture == Zip(<<Member(Name_x_dat, File_fixture)>>)
Zip_ragged == Zip(<<Member(Name_x_txt, File_ragged)>>)

BatchDownloadResponses ==
  {Exc, NotOk, Body(<<"empty">>), Body(<<"garbage">>),
   Body(Zip_fixture), Body(Zip_ragged)}

-----------------------------------------------------------------------------
(* The batch: main over a list of elements.                                *)

Init == \E a \in ArgvInputs : MainStart(a) /\ FreshLocals /\ Idle

Next ==
  \/ ParseArgs
  \/ StartElement
  \/ SearchPage(BatchSearchResponses)
  \/ SelectRecord
  \/ CheckChosen
  \/ DownloadTry(BatchDownloadResponses)
  \/ DownloadFailed
  \/ Extract
  \/ Parse
  \/ ResolveE0
  \/ Save
  \/ MainExit

Spec == Init /\ [][Next]_vars

-----------------------------------------------------------------------------
(* The search alone: fetch_convert_one at line 282 for one element, with a *)
(* catalogue that answers every page request with any page of RichRecs.    *)

\* most records on one page of the catalogue
MaxRecs == 1

RichRecs == {Rec_pref, Rec_plain, Rec_pref_noid, Rec_noid, Rec_emptyid}

RichSearchResponses ==
  {Exc, NotOk, NonJson}
    \cup {Page(recs) : recs \in UNION {[1..n -> RichRecs] : n \in 0..MaxRecs}}

\* main in its loop, about to call fetch_convert_one for the only element
InitSearch ==
  /\ MainStart([element |-> Tok_fe, edge |-> Edge_K, normalize |-> FALSE,
                window |-> <<-20000, 80000>>])
  /\ FreshLocals
  /\ Idle

NextSearch ==
  \/ ParseArgs
  \/ StartElement
  \/ SearchPage(RichSearchResponses)
  \/ SelectRecord
  \/ CheckChosen

SpecSearch == InitSearch /\ [][NextSearch]_vars


-----------------------------------------------------------------------------
(* Extraction and parsing alone: fetch_convert_one at line 313, holding an *)
(* archive that the download returned.                                     *)

\* most members of an archive
MaxMembers == 3
\* most header lines of a spectrum file
MaxHdr == 3

Name_spec_csv == <<"s", "p", "e", "c", ".", "c", "s", "v">>
Name_spec_xdi == <<"s", "p", "e", "c", ".", "x", "d", "i">>
Name_spec_dat == <<"s", "p", "e", "c", ".", "d", "a", "t">>
Name_a_txt == <<"a", ".", "t", "x", "t">>
Name_B_XDI == <<"B", ".", "X", "D", "I">>
Name_e_xdi == <<"e", ".", "x", "d", "i">>
Name_dir == <<"d", ".", "x", "d", "i", "/">>

\* one row of two columns, different for every member
Rows1(n) == <<Row(<<700000 + n, 100 + n>>)>>

\* the members an archive is made of; e.xdi is empty, d.xdi/ a directory
MemberInputs ==
  {Member(Name_spec_csv, Rows1(1)), Member(Name_spec_xdi, Rows1(2)),
   Member(Name_spec_dat, Rows1(3)), Member(Name_a_txt, Rows1(4)),
   Member(Name_B_XDI, Rows1(5)), Member(Name_e_xdi, <<>>),
   Member(Name_dir, <<>>), Member(Name_readme, Rows1(6))}

\* the sequences of up to n different elements of S
RECURSIVE Arrangements(_, _)
Arrangements(S, n) ==
  IF n = 0 THEN {<<>>}
  ELSE LET shorter == Arrangements(S, n - 1) IN
       shorter \cup {Append(s, x) : s \in shorter, x \in S}

Distinct(s) == \A i, j \in DOMAIN s : i # j => s[i] # s[j]

ArchiveInputs ==
  {Zip(es) : es \in {s \in Arrangements(MemberInputs, MaxMembers) : Distinct(s)}}

Val_i0 == <<"i", "0">>
Val_itrans == <<"i", "t", "r", "a", "n", "s">>
Val_monitor == <<"M", "o", "n", "i", "t", "o", "r">>
Val_mutrans == <<"M", "u", "T", "r", "a", "n", "s">>
Key_Column0 == <<"C", "o", "l", "u", "m", "n", ".", "0">>
Key_Column2 == <<"C", "o", "l", "u", "m", "n", ".", "2">>
Key_Column3 == <<"C", "o", "l", "u", "m", "n", ".", "3">>
Key_column4 == <<"c", "o", "l", "u", "m", "n", ".", "4">>
Key_Column_x == <<"C", "o", "l", "u", "m", "n", ".", "x">>

\* the header lines a spectrum file is made of
HeaderInputs ==
  {Hdr(Key_Column1, Val_mu), Hdr(Key_Column1, Val_itrans), Hdr(Key_Column0, Val_mu),
   Hdr(Key_Column2, Val_mutrans), Hdr(Key_Column2, Val_i0), Hdr(Key_Column3, Val_itrans),
   Hdr(Key_Column3, Val_monitor), Hdr(Key_column4, Val_mu), Hdr(Key_Column_x, Val_mu)}

\* tables of two and three columns, one with intensities <= 0
TableInputs ==
  {<<Row(<<700000, 100, 50>>), Row(<<700500, 120, 40>>), Row(<<750000, 200, 30>>)>>,
   <<Row(<<700000, 100>>), Row(<<700500, 120>>), Row(<<750000, 200>>)>>,
   <<Row(<<700000, 0, 50>>), Comment, Row(<<700500, 120, -40>>)>>}

\* other data blocks: one row, one column, one value, a value that is no
\* number, rows of different lengths, no data line
OddInputs ==
  {<<Row(<<700000, 100, 50>>)>>,
   <<Row(<<700000>>), Row(<<700500>>), Row(<<750000>>)>>,
   <<Row(<<700000>>)>>,
   <<Row(<<700000, 100>>), Blank, [kind |-> "data", toks |-> <<Num(700500), NaN>>]>>,
   File_ragged,
   <<>>}

FileInputs ==
  {h \o d : h \in {s \in Arrangements(HeaderInputs, MaxHdr) : Distinct(s)},
            d \in TableInputs}
    \cup {h \o d : h \in Arrangements(HeaderInputs, 1), d \in OddInputs}

\* main in its loop for the element Fe, fetch_convert_one holding the archive zb
FileStart(zb) ==
  /\ argv = [element |-> Tok_fe, edge |-> Edge_K, normalize |-> FALSE,
             window |-> <<-20000, 80000>>]
  /\ pc = "loop"
  /\ elements = <<Sym_Fe>>
  /\ idx = 1
  /\ ok = 0
  /\ exit_code = -1
  /\ returned = <<>>
  /\ stage = "extract"
  /\ files = {}
  /\ outdir_exists = FALSE
  /\ diag = <<>>
  /\ caught = <<>>
  /\ gen = NewGen
  /\ chosen_id = JStr("a")
  /\ chosen_title = <<>>
  /\ served = <<>>
  /\ yielded = <<>>
  /\ dl_tried = <<[base |-> 1, resp |-> Body(zb)]>>
  /\ zip_url = 1
  /\ zip_bytes = zb
  /\ spec_name = <<>>
  /\ spec_bytes = <<>>
  /\ header = <<>>
  /\ data = <<>>
  /\ e0 = JNone
  /\ Idle

InitFile ==
  \E zb \in ArchiveInputs \cup {Zip(<<Member(Name_x_dat, f)>>) : f \in FileInputs} :
    FileStart(zb)

NextFile ==
  \/ Extract
  \/ Parse
  \/ ResolveE0

SpecFile == InitFile /\ [][NextFile]_vars

-----------------------------------------------------------------------------
(* Properties of the search (SpecSearch).                                  *)

\* the records that the requests to base b returned, in order
RECURSIVE ServedBy(_, _)
ServedBy(log, b) ==
  IF log = <<>> THEN <<>>
  ELSE (IF Head(log).base = b THEN Head(log).recs ELSE <<>>) \o ServedBy(Tail(log), b)

\* the sequence that search_mdr has produced so far
Produced == [i \in DOMAIN yielded |-> yielded[i].rec]

\* C1: when search_mdr has run to its end, the first mirror returned no
\* record and the second returned N > 0 records, the produced sequence is
\* the second mirror's N records in order; and once a record has been
\* yielded from a mirror, no request has gone to a later mirror.
C1_MirrorFallback ==
  /\ (gen.done /\ ServedBy(served, 1) = <<>> /\ ServedBy(served, 2) # <<>>)
       => Produced = ServedBy(served, 2)
  /\ \A i \in DOMAIN yielded, j \in DOMAIN served : served[j].base <= yielded[i].base

\* the second mirror answered after the first had no record, with one record
\* on each of two pages, and the search has ended
C1_Witness ==
  /\ gen.done
  /\ ServedBy(served, 1) = <<>>
  /\ Len(ServedBy(served, 2)) >= 2
  /\ Len(yielded) >= 2

\* the title and description that line 285-286 read from a record
TitleOf(rec) == text_of(attrs_of(rec).val, rec, "title").val
DescOf(rec) == text_of(attrs_of(rec).val, rec, "description").val
IsPreferred(rec) == mentions(elem, TitleOf(rec), DescOf(rec))
HasId(rec) == get_dataset_id(rec).ok

\* the positions of the produced records that have an id, and of those
\* among them that mention the element and XAFS
WithIdAt == {i \in DOMAIN Produced : HasId(Produced[i])}
PreferredAt == {i \in WithIdAt : IsPreferred(Produced[i])}
Least(S) == CHOOSE i \in S : \A j \in S : i <= j

\* C2: when the selection loop has ended, the chosen id is the id of the
\* first produced record that mentions the element and XAFS and has an id;
\* with no such record it is the id of the first produced record that has an
\* id (None when no record has one).  A preferred record replaces a fallback
\* remembered before it.
C2_Selection ==
  stage = "selected" =>
    IF PreferredAt # {}
    THEN chosen_id = JStr(get_dataset_id(Produced[Least(PreferredAt)]).val)
    ELSE IF WithIdAt # {}
    THEN chosen_id = JStr(get_dataset_id(Produced[Least(WithIdAt)]).val)
    ELSE chosen_id[1] = "None"

\* a record that is no preferred match came first and was remembered; the
\* preferred record of the next page has replaced it
C2_Witness ==
  /\ stage = "selected"
  /\ Len(yielded) = 2
  /\ yielded[1].rec = Rec_plain
  /\ yielded[2].rec = Rec_pref
  /\ chosen_id = JStr("a")

\* the search of the element is over: the selection loop has been left
SearchOver == pc = "loop" /\ (stage \in {"selected", "download"} \/ idx > 1)

\* what is left of the search in the frame g: the bases and the pages after
\* the current ones, and in the current page the request or the records not
\* yielded yet; 0 when the generator has returned
PageWeight == MaxRecs + 2
Rank(g) ==
  IF g.done THEN 0
  ELSE 1 + (NumBases - g.base) * max_pages * PageWeight
         + (max_pages - g.page) * PageWeight
         + (IF g.recs = <<>> THEN MaxRecs + 1 ELSE Len(g.recs))

\* C13: search_mdr issues at most NumBases * max_pages page requests, none
\* of them twice for the same mirror and page; and it terminates: every
\* request and every yield leaves less of the search to do, or ends it.
C13_SearchBounded ==
  /\ [](/\ Len(served) <= NumBases * max_pages
        /\ \A i, j \in DOMAIN served :
             (served[i].base = served[j].base /\ served[i].page = served[j].page) => i = j
        /\ Rank(gen) >= 0)
  /\ [][(served' # served \/ yielded' # yielded)
          => (Rank(gen') < Rank(gen) \/ stage' # "search")]_vars

\* the first mirror had no record, the second one a record on every page,
\* and the search is over
C13_Witness ==
  /\ SearchOver
  /\ Len(served) = 1 + max_pages
  /\ Len(yielded) = max_pages

-----------------------------------------------------------------------------
(* Properties of the batch (Spec).                                         *)

\* an answer that download_zip takes: status ok and a body that is not empty
Usable(resp) == resp.kind = "body" /\ resp.content # <<"empty">>

\* the run has printed the line msg for the current call
Printed(msg) == \E i \in DOMAIN diag : diag[i].msg = msg

\* C3: download_zip asks the mirrors in the configured order; when it has
\* returned, the url and bytes are those of the first mirror with a usable
\* answer and no later mirror was asked; it fails only when every mirror was
\* asked and none gave a usable answer.
C3_DownloadOrder ==
  /\ \A i \in DOMAIN dl_tried : dl_tried[i].base = i
  /\ zip_url # 0 =>
       /\ zip_url = Len(dl_tried)
       /\ Usable(dl_tried[zip_url].resp)
       /\ zip_bytes = dl_tried[zip_url].resp.content
       /\ \A i \in 1..(zip_url - 1) : ~Usable(dl_tried[i].resp)
  /\ Printed("[WARN] Failed ZIP download for") =>
       /\ Len(dl_tried) = NumBases
       /\ \A i \in DOMAIN dl_tried : ~Usable(dl_tried[i].resp)

\* the first mirror failed and the second one delivered the archive
C3_Witness ==
  /\ stage = "extract"
  /\ zip_url = 2
  /\ ~Usable(dl_tried[1].resp)
  /\ zip_bytes = Zip_fixture

\* the tokens of -Z that are not blank
Tokens == SelectSeq(Split(argv.element, ","), LAMBDA t : Strip(t) # <<>>)

\* C4 (as claimed): a token of -Z that names no element stops only itself:
\* when main exits, fetch_convert_one has been called for every token that
\* names an element.
C4_LaterElementsProcessed ==
  pc = "exit" =>
    Len(returned) = Cardinality({i \in DOMAIN Tokens : coerce_element_symbol(Tokens[i]).ok})

\* the number of calls of fetch_convert_one that returned a path
Successes == Cardinality({i \in DOMAIN returned : returned[i] = "path"})

\* C5: when main exits, the exit status is not 0 exactly when no element
\* succeeded, the counter ok is the number of calls that wrote a file and
\* returned its path, and each of these files exists.
C5_ExitStatus ==
  pc = "exit" =>
    /\ (exit_code # 0) <=> (Successes = 0)
    /\ ok = Successes
    /\ \A i \in DOMAIN returned :
         returned[i] = "path" =>
           \E f \in files :
             f.path = outpath(elements[i], argv.edge,
                              IF argv.normalize THEN "norm" ELSE "raw")

\* a run of two elements of which one succeeded and one failed, exit status 0
C5_Witness ==
  /\ pc = "exit"
  /\ exit_code = 0
  /\ Len(returned) = 2
  /\ Successes = 1

\* C6 (as claimed): a step that catches an exception prints a line.
C6_CaughtIsPrinted == [][caught' # <<>> => Len(diag') > Len(diag)]_vars

-----------------------------------------------------------------------------
(* Properties of extraction and parsing (SpecFile).                        *)

\* extract_first_spectrum has returned a member
Extracted == spec_name # <<>>
\* parse_xdi_or_ascii has returned a spectrum
Parsed == stage \in {"e0", "save"}

signal(d) == [r \in DOMAIN d |-> d[r][2]]

\* C7 (as claimed): the fixture x.dat with '# Column.1: mu' parses to the
\* energy 7000, 7005, 7500 and the signal 1.0, 1.2, 2.0, and the edge energy
\* of Fe K is 7112.
C7_FixtureAsClaimed ==
  (zip_bytes = Zip_fixture /\ stage = "save") =>
    /\ energies(data) = <<Num(700000), Num(700500), Num(750000)>>
    /\ signal(data) = <<Num(100), Num(120), Num(200)>>
    /\ e0 = Num(711200)

\* C7 (amended): the fixture x.dat with '# Column.1: mu' is extracted and
\* parses to the energy 7000, 7005, 7500; its signal is the column that the
\* label names, column 0: 7000, 7005, 7500; the edge energy of Fe K is 7112,
\* from the table.
C7_Fixture ==
  zip_bytes = Zip_fixture =>
    /\ Extracted => spec_name = Name_x_dat /\ spec_bytes = File_fixture
    /\ Parsed =>
         /\ energies(data) = <<Num(700000), Num(700500), Num(750000)>>
         /\ signal(data) = <<Num(700000), Num(700500), Num(750000)>>
    /\ stage = "save" => e0 = Num(K_EDGES[Sym_Fe]) /\ e0 = Num(711200)

C7_Witness == zip_bytes = Zip_fixture /\ stage = "save" /\ Len(data) = 3

\* the data lines of the file that hold a value, as rows of values
FileRows ==
  LET full == SelectSeq(spec_bytes, LAMBDA ln : ln.kind = "data" /\ ln.toks # <<>>)
  IN  [i \in DOMAIN full |-> full[i].toks]
\* the numeric table as np.genfromtxt loads it from the data lines, a load of
\* one dimension being one row (lines 207-209)
Table ==
  LET g == genfromtxt(split_lines(spec_bytes, <<>>, <<>>)[2]).val
  IN  IF g.ndim = 1 THEN <<g.vec>> ELSE g.rows
\* column i of the table t (0-based), -1 being the last one
ColumnOf(t, i) == [r \in DOMAIN t |-> t[r][IF i = -1 THEN Len(t[1]) ELSE i + 1]]

\* the header items that label a column with a description mentioning sub
Labels(sub) ==
  {i \in DOMAIN header :
     /\ StartsWith(Lower(header[i].k), Column)
     /\ IsDigitStr(last_part(header[i].k))
     /\ Contains(sub, Lower(header[i].v))}
Labelled(sub) == Labels(sub) # {}
\* N - 1 for the first such item Column.N
LabelIndex(sub) ==
  LET i == CHOOSE i \in Labels(sub) : \A j \in Labels(sub) : i <= j
  IN  IntOf(last_part(header[i].k)) - 1

\* the column taken for it: the itrans label; without one, or when that is
\* Column.1, the itr label and then the it label in the same way
ItSubs == <<<<"i", "t", "r", "a", "n", "s">>, <<"i", "t", "r">>, <<"i", "t">>>>
ItLabelled == Labelled(ItSubs[3])
ItIndex ==
  IF Labelled(ItSubs[1]) /\ LabelIndex(ItSubs[1]) # 0 THEN LabelIndex(ItSubs[1])
  ELSE IF Labelled(ItSubs[2]) /\ LabelIndex(ItSubs[2]) # 0 THEN LabelIndex(ItSubs[2])
  ELSE LabelIndex(ItSubs[3])

NegLog(t, i_it, i_i0) ==
  LET It == ColumnOf(t, i_it)
      I0 == ColumnOf(t, i_i0)
  IN  [r \in DOMAIN t |-> neg_log(It[r], I0[r])]

\* C8 (as claimed): with a mu label Column.N the signal is column N-1; else
\* with an i0 and an it label it is -ln(it/i0) of those columns; else it is
\* column 1; energy is column 0.
C8_PriorityAsClaimed ==
  Parsed =>
    LET t == Table
        ncols == Len(t[1])
    IN
    /\ energies(data) = ColumnOf(t, 0)
    /\ IF Labelled(Val_mu)
       THEN /\ LabelIndex(Val_mu) \in 0..(ncols - 1)
            /\ signal(data) = ColumnOf(t, LabelIndex(Val_mu))
       ELSE IF Labelled(Val_i0) /\ ItLabelled
       THEN /\ LabelIndex(Val_i0) \in 0..(ncols - 1)
            /\ ItIndex \in 0..(ncols - 1)
            /\ signal(data) = NegLog(t, ItIndex, LabelIndex(Val_i0))
       ELSE signal(data) = ColumnOf(t, 1)

\* C8 (amended): the mu label is the first header Column.N, N a number, whose
\* description mentions mu.  When N-1 is less than the number of columns the
\* signal is column N-1 (N = 0: the last column); else, when an i0 and an it
\* label both name indexes less than the number of columns, it is
\* -ln(it/i0) of those columns (-1: the last column), both clamped; else it
\* is column 1.  Energy is column 0.
C8_Priority ==
  Parsed =>
    LET t == Table
        ncols == Len(t[1])
    IN
    /\ energies(data) = ColumnOf(t, 0)
    /\ IF Labelled(Val_mu) /\ LabelIndex(Val_mu) < ncols
       THEN signal(data) = ColumnOf(t, LabelIndex(Val_mu))
       ELSE IF /\ Labelled(Val_i0) /\ ItLabelled
               /\ LabelIndex(Val_i0) < ncols /\ ItIndex < ncols
       THEN signal(data) = NegLog(t, ItIndex, LabelIndex(Val_i0))
       ELSE signal(data) = ColumnOf(t, 1)

\* a file that labels mu, i0 and it, all three inside a table of three
\* columns: the mu label has won
C8_Witness ==
  /\ Parsed
  /\ Len(Table[1]) = 3
  /\ Labelled(Val_mu) /\ LabelIndex(Val_mu) = 0
  /\ Labelled(Val_i0) /\ LabelIndex(Val_i0) = 1
  /\ ItLabelled /\ ItIndex = 2
  /\ signal(data) = ColumnOf(Table, 0)
  /\ signal(data) # NegLog(Table, 2, 1)

\* C9 (as claimed): no spectrum is returned when the data lines hold fewer
\* than 2 columns.
C9_FewColumnsRejected ==
  Parsed => \A r \in DOMAIN FileRows : Len(FileRows[r]) >= 2

\* <<class, length>> of a name with a recognised extension
ExtClass(name) ==
  LET ext == SubSeq(Lower(name), Len(name) - 3, Len(name)) IN
  CASE ext = Ext_xdi -> 0 [] ext = Ext_dat -> 1 [] ext = Ext_txt -> 2 [] ext = Ext_csv -> 3
Recognised(name) ==
  /\ Len(name) >= 4
  /\ SubSeq(Lower(name), Len(name) - 3, Len(name)) \in {Ext_xdi, Ext_dat, Ext_txt, Ext_csv}
\* the members that can be returned: recognised extension, not empty
Candidates ==
  {i \in DOMAIN zip_bytes[2] :
     Recognised(zip_bytes[2][i].name) /\ zip_bytes[2][i].data # <<>>}
Before(a, b) ==
  \/ ExtClass(a) < ExtClass(b)
  \/ ExtClass(a) = ExtClass(b) /\ Len(a) < Len(b)

\* C10: the member that extract_first_spectrum returns is a candidate, and no
\* candidate is before it by (extension class, length of name); of spec.csv,
\* spec.xdi and spec.dat in any order it is spec.xdi.
C10_ExtractMinimal ==
  Extracted =>
    /\ \E i \in Candidates :
         /\ zip_bytes[2][i].name = spec_name
         /\ zip_bytes[2][i].data = spec_bytes
         /\ \A j \in Candidates : ~Before(zip_bytes[2][j].name, spec_name)
    /\ {zip_bytes[2][i].name : i \in DOMAIN zip_bytes[2]}
         = {Name_spec_csv, Name_spec_xdi, Name_spec_dat} => spec_name = Name_spec_xdi

\* from the archive spec.csv, spec.dat, spec.xdi, in this order, spec.xdi has
\* been returned
C10_Witness ==
  /\ Extracted
  /\ Len(zip_bytes[2]) = 3
  /\ zip_bytes[2][1].name = Name_spec_csv
  /\ zip_bytes[2][2].name = Name_spec_dat
  /\ zip_bytes[2][3].name = Name_spec_xdi
  /\ spec_name = Name_spec_xdi

\* C11: the member that extract_first_spectrum returns is no directory
\* entry, has a recognised extension and is not empty; once it has run, it
\* has failed (the run printing that the dataset has no spectrum file)
\* exactly when the archive has no member that is not empty and has a
\* recognised extension.
C11_ExtractFailsExactly ==
  /\ Extracted =>
       /\ ~EndsWith(spec_name, <<"/">>)
       /\ Recognised(spec_name)
       /\ spec_bytes # <<>>
       /\ \E i \in DOMAIN zip_bytes[2] :
            zip_bytes[2][i].name = spec_name /\ zip_bytes[2][i].data = spec_bytes
  /\ stage # "extract" => (Extracted <=> Candidates # {})
  /\ Printed("[WARN] No spectrum file in dataset") <=>
       (stage # "extract" /\ Candidates = {})

\* the archive holds the empty e.xdi and then spec.csv: the member of the
\* lower rank has been returned
C11_Witness ==
  /\ Len(zip_bytes[2]) = 2
  /\ zip_bytes[2][1].name = Name_e_xdi
  /\ zip_bytes[2][2].name = Name_spec_csv
  /\ spec_name = Name_spec_csv
  /\ spec_bytes = Rows1(1)

-----------------------------------------------------------------------------
(* Functions called on their own: the call is drawn from the inputs below, *)
(* the pipeline stands still.                                              *)

\* most elements of the list of a JSON body
MaxBody == 2

\* a JSON body holding the list items in one of the shapes of the catalogue
ODict(items) == <<"odict", items>>
Shaped(shape, items) ==
  CASE shape = "list" -> JList(items)
    [] shape = "data" -> ODict(<<[k |-> "data", v |-> JList(items)]>>)
    [] shape = "items" -> ODict(<<[k |-> "items", v |-> JList(items)]>>)
    [] shape = "results" -> ODict(<<[k |-> "results", v |-> JList(items)]>>)
    [] shape = "meta" -> ODict(<<[k |-> "meta", v |-> JList(items)]>>)
    [] shape = "dict" -> ODict(items)
    [] shape = "values" -> ODict([i \in DOMAIN items |-> [k |-> int_str(i), v |-> items[i]]])

ShapeInputs == {"list", "data", "items", "results", "meta", "values"}
ItemInputs == {JDict(Rec_pref), JDict(Rec_plain), JDict(Rec_noid), JInt(1)}
BodyCalls ==
  [fn : {"_iter_api_records"}, shape : ShapeInputs,
   items : UNION {[1..n -> ItemInputs] : n \in 0..MaxBody}]

\* dict bodies: each of the keys data, items, results, a is absent or holds
\* a list of one record of its own, an empty list, a record or a number;
\* the keys in this order or in the reverse one
BodyKeys == <<"data", "items", "results", "a">>
RecordFor(key) ==
  CASE key = "data" -> Rec_pref
    [] key = "items" -> Rec_plain
    [] key = "results" -> Rec_noid
    [] OTHER -> Rec_pref_noid
RECURSIVE BodyItems(_, _)
BodyItems(kinds, i) ==
  IF i > Len(kinds) THEN <<>>
  ELSE (IF kinds[i] = "absent" THEN <<>>
        ELSE <<[k |-> BodyKeys[i],
                v |-> CASE kinds[i] = "list" -> JList(<<JDict(RecordFor(BodyKeys[i]))>>)
                        [] kinds[i] = "empty" -> JList(<<>>)
                        [] kinds[i] = "record" -> JDict(RecordFor(BodyKeys[i]))
                        [] kinds[i] = "number" -> JInt(1)]>>)
       \o BodyItems(kinds, i + 1)
DictCalls ==
  UNION {{[fn |-> "_iter_api_records", shape |-> "dict", items |-> BodyItems(kinds, 1)],
          [fn |-> "_iter_api_records", shape |-> "dict",
           items |-> [i \in DOMAIN BodyItems(kinds, 1) |->
                        BodyItems(kinds, 1)[Len(BodyItems(kinds, 1)) + 1 - i]]]} :
           kinds \in [1..4 -> {"absent", "list", "empty", "record", "number"}]}

Returned(v) == <<"returned", v>>
Raised(e) == <<"raised", e>>
\* the outcome of a result record
OutcomeOf(r) == IF r.ok THEN Returned(r.val) ELSE Raised(r.exc)

\* the pipeline at rest while a function is called on its own
Parked ==
  /\ MainStart([element |-> Tok_fe, edge |-> Edge_K, normalize |-> FALSE,
                window |-> <<-20000, 80000>>])
  /\ FreshLocals
StaysParked ==
  UNCHANGED <<mainVars, searchVars, dlVars, fileVars, outVars, stage, diag, caught,
              convVars>>

\* list(_iter_api_records(js)) for the body of the call
CallIterRecords ==
  /\ call.fn = "_iter_api_records"
  /\ outcome = <<"none">>
  /\ outcome' = Returned(_iter_api_records(Shaped(call.shape, call.items)))
  /\ UNCHANGED call
  /\ StaysParked

\* tokens given to coerce_element_symbol on its own
Tok_FE == <<"F", "E">>
Tok_26_spaced == <<" ", "2", "6", " ">>
Tok_92 == <<"9", "2">>
Tok_93 == <<"9", "3">>
Tok_xx == <<"x", "x">>
Tok_f1 == <<"f", "1">>
Tok_blank == <<" ", " ">>
Tok_u == <<"u">>
SymbolCalls ==
  [fn : {"coerce_element_symbol"},
   token : {Tok_fe, Tok_FE, Tok_26_spaced, Tok_0, Tok_29, Tok_92, Tok_93,
            Tok_xx, Tok_f1, Tok_blank, Tok_u, <<>>}]

\* coerce_element_symbol(token) for the token of the call
CallCoerce ==
  /\ call.fn = "coerce_element_symbol"
  /\ outcome = <<"none">>
  /\ outcome' = OutcomeOf(coerce_element_symbol(call.token))
  /\ UNCHANGED call
  /\ StaysParked

\* header values: three different numbers, a text that is no number, "nan"
Val_7100 == <<"7", "1", "0", "0">>
Val_7200 == <<"7", "2", "0", "0">>
Val_7300 == <<"7", "3", "0", "0", ".", "5">>
Val_abc == <<"a", "b", "c">>
Val_nan == <<"n", "a", "n">>
Sym_U == <<"U">>
Edge_k == <<"k">>

E0Keys == <<Key_ScanEdgeEnergy, Key_EdgeEnergy, Key_EdgeE0>>
E0Values == <<Val_7100, Val_7200, Val_7300>>
\* the header in which key i is absent, a number, no number or "nan", as
\* kinds[i] says; the keys in the order of E0Keys, or in the reverse order
RECURSIVE E0Header(_, _)
E0Header(kinds, i) ==
  IF i > Len(kinds) THEN <<>>
  ELSE (IF kinds[i] = "absent" THEN <<>>
        ELSE <<[k |-> E0Keys[i],
                v |-> CASE kinds[i] = "number" -> E0Values[i]
                        [] kinds[i] = "text" -> Val_abc
                        [] kinds[i] = "nan" -> Val_nan]>>)
       \o E0Header(kinds, i + 1)
Reversed(s) == [i \in DOMAIN s |-> s[Len(s) + 1 - i]]
E0Headers ==
  UNION {{E0Header(kinds, 1), Reversed(E0Header(kinds, 1))} :
           kinds \in [1..3 -> {"absent", "number", "text", "nan"}]}

EnergyInputs ==
  {JNone, <<"array", <<>>>>,
   <<"array", <<Num(700000), Num(700500), Num(750000)>>>>,
   <<"array", <<Num(700000), NaN>>>>}

E0Calls ==
  [fn : {"guess_e0"}, header : E0Headers, element : {Sym_Fe, Sym_U},
   edge : {Edge_K, Edge_k, Edge_L3}, E : EnergyInputs]

\* guess_e0(header, element, edge, E) for the arguments of the call
CallGuessE0 ==
  /\ call.fn = "guess_e0"
  /\ outcome = <<"none">>
  /\ outcome' = OutcomeOf(guess_e0(call.header, call.element, call.edge, call.E))
  /\ UNCHANGED call
  /\ StaysParked

-----------------------------------------------------------------------------
(* normalize_xanes.  Its arithmetic is done on exact fractions <<"frac", n, *)
(* d>> with d > 0 and n, d coprime; rounding is not modelled.              *)

Abs(n) == IF n < 0 THEN -n ELSE n
RECURSIVE GCD(_, _)
GCD(a, b) == IF b = 0 THEN a ELSE GCD(b, a % b)
Frac(n, d) ==
  LET g == GCD(Abs(n), Abs(d))
      s == IF d < 0 THEN -1 ELSE 1
  IN  <<"frac", (s * n) \div g, (s * d) \div g>>
FAdd(a, b) == Frac(a[2] * b[3] + b[2] * a[3], a[3] * b[3])
FSub(a, b) == Frac(a[2] * b[3] - b[2] * a[3], a[3] * b[3])
FMul(a, b) == Frac(a[2] * b[2], a[3] * b[3])
FDiv(a, b) == Frac(a[2] * b[3], a[3] * b[2])
FInt(n) == Frac(n, 1)
\* the value of the float x
FNum(x) == Frac(x[2], 100)
\* 1e-12, the floor of the step
EPS == <<"eps", 1, 1>>

RECURSIVE Sum(_)
Sum(s) == IF s = <<>> THEN FInt(0) ELSE FAdd(Head(s), Sum(Tail(s)))
Products(x, y) == [i \in DOMAIN x |-> FMul(x[i], y[i])]

\* linfit with every y replaced by the mean of y: the line is flat
linfit_flat(x, y) ==
  [a |-> FInt(0), b |-> FDiv(Sum(y), FInt(Len(x)))]

\* linfit (lines 261-264): the least-squares line a*x + b through the points;
\* when all x are equal the line is not determined and lstsq returns the
\* solution of least a*a + b*b, which passes through the mean of y at x
linfit(x, y) ==
  LET n == FInt(Len(x))
      sx == Sum(x)
      sy == Sum(y)
      sxx == Sum(Products(x, x))
      sxy == Sum(Products(x, y))
      D == FSub(FMul(n, sxx), FMul(sx, sx))
  IN  IF D[2] # 0
      THEN [a |-> FDiv(FSub(FMul(n, sxy), FMul(sx, sy)), D),
            b |-> FDiv(FSub(FMul(sy, sxx), FMul(sx, sxy)), D)]
      ELSE LET x0 == x[1]
               m == FDiv(sy, n)
               q == FAdd(FMul(x0, x0), FInt(1))
           IN  [a |-> FDiv(FMul(x0, m), q), b |-> FDiv(m, q)]

\* the least and the greatest of the numbers of s
Minimum(s) == CHOOSE v \in {s[i][2] : i \in DOMAIN s} : \A i \in DOMAIN s : v <= s[i][2]
Maximum(s) == CHOOSE v \in {s[i][2] : i \in DOMAIN s} : \A i \in DOMAIN s : v >= s[i][2]

\* lines 257-259, where ndarray.ptp exists: nan wherever mu holds a nan
minmax(mu) ==
  IF mu = <<>> THEN Raise("ValueError: zero-size array")
  ELSE IF \E i \in DOMAIN mu : ~IsNum(mu[i])
  THEN Ok([branch |-> "minmax", mu_norm |-> [i \in DOMAIN mu |-> NaN], step |-> NaN])
  ELSE LET lo == Minimum(mu)
           ptp == Maximum(mu) - lo
       IN  Ok([branch |-> "minmax",
               mu_norm |-> [i \in DOMAIN mu |->
                              IF ptp > 0 THEN Frac(mu[i][2] - lo, ptp) ELSE FInt(0)],
               step |-> IF ptp > 0 THEN Frac(ptp, 100) ELSE EPS])

\* the indexes of E inside the window [e + w[1], e + w[2]]
mask(E, e, w) == {i \in DOMAIN E : in_window(E[i], e, w[1], w[2])}
Masked(s, m) ==
  LET picked == SelectSeq([i \in DOMAIN s |-> <<i, s[i]>>], LAMBDA p : p[1] \in m)
  IN  [i \in DOMAIN picked |-> FNum(picked[i][2])]

\* lines 266-274, for numbers E, mu and e (the edge energy)
fit(E, mu, e, pre_mask, post_mask) ==
  LET p == linfit(Masked(E, pre_mask), Masked(mu, pre_mask))
      s == linfit(Masked(E, post_mask), Masked(mu, post_mask))
      at(l, x) == FAdd(FMul(l.a, x), l.b)
      diff == FSub(at(s, FNum(e)), at(p, FNum(e)))
      step == IF diff[2] = 0 THEN FInt(1) ELSE diff
  IN  Ok([branch |-> "fit",
          mu_norm |-> [i \in DOMAIN mu |->
                         FDiv(FSub(FNum(mu[i]), at(p, FNum(E[i]))), step)],
          step |-> step])

\* normalize_xanes where ndarray.ptp exists
normalize_xanes(E, mu, e, pre, post) ==
  LET pre_mask == mask(E, e, pre)
      post_mask == mask(E, e, post)
  IN  IF pre_mask = {} \/ post_mask = {} THEN minmax(mu)
      ELSE fit(E, mu, e, pre_mask, post_mask)

\* energies around e0 = 5 with the windows [2, 4] and [6, 8]
E0_5 == Num(500)
PreInput == <<-300, -100>>
PostInput == <<100, 300>>
Whole(s) == [i \in DOMAIN s |-> Num(100 * s[i])]
EnergyArrays ==
  {<<2, 3, 6, 7>>, <<0, 2, 4, 5, 6, 8, 10>>, <<7, 2, 6, 3>>, <<3, 6, 7>>,
   <<2, 3, 7>>, <<3, 7>>, <<3, 3, 6, 7>>, <<2, 3>>}
\* slope * E + intercept up to e0, and step more above e0
StepSignal(E, slope, intercept, step) ==
  [i \in DOMAIN E |-> slope * E[i] + intercept + (IF E[i] > 5 THEN step ELSE 0)]
StepCalls ==
  {[fn |-> "normalize_xanes", E |-> Whole(E), mu |-> Whole(StepSignal(E, a, b, k)),
    e0 |-> E0_5, pre |-> PreInput, post |-> PostInput,
    line |-> <<a, b>>, known_step |-> k] :
     E \in EnergyArrays, a \in {-1, 0, 1}, b \in {0, 2}, k \in {-2, 0, 1, 3}}

\* any signal over energies that leave a window empty, and over none
FallbackArrays == {<<>>, <<7>>, <<2, 3>>, <<6, 8>>, <<0, 5, 9>>}
SignalValues == {Num(0), Num(100), Num(300), NaN}
FreeCalls ==
  UNION {[fn : {"normalize_xanes"}, E : {Whole(E)}, mu : [DOMAIN E -> SignalValues],
          e0 : {E0_5, NaN}, pre : {PreInput}, post : {PostInput},
          line : {<<>>}, known_step : {0}] : E \in FallbackArrays}

\* normalize_xanes(E, mu, e0, pre, post) for the arguments of the call; the
\* min-max branch calls mu.ptp(), which NumPy 2.0 removed: there the call
\* raises AttributeError
CallNormalize ==
  /\ call.fn = "normalize_xanes"
  /\ outcome = <<"none">>
  /\ LET r == normalize_xanes(call.E, call.mu, call.e0, call.pre, call.post) IN
     \/ outcome' = OutcomeOf(r)
     \/ /\ mask(call.E, call.e0, call.pre) = {} \/ mask(call.E, call.e0, call.post) = {}
        /\ outcome' = Raised("AttributeError: 'numpy.ndarray' object has no attribute 'ptp'")
  /\ UNCHANGED call
  /\ StaysParked

\* records given to get_dataset_id on its own: the top-level id, the
\* attributes and data each absent or of one of these kinds.  The attributes
\* are null or a dict, as they are wherever fetch_convert_one gets as far as
\* line 289
IdKinds == {"absent", "str", "int", "empty", "null", "list"}
AttrKinds == {"absent", "null", "none", "uuid", "id", "identifier", "id_identifier",
              "all", "title"}
DataKinds == {"absent", "null", "id", "doi", "list", "number"}
IdValue(kind) ==
  CASE kind = "str" -> JStr("a")
    [] kind = "int" -> JInt(7)
    [] kind = "empty" -> JStr("")
    [] kind = "null" -> JNone
    [] kind = "list" -> JList(<<JInt(7)>>)
AttrValue(kind) ==
  CASE kind = "null" -> JNone
    [] kind = "none" -> JDict(EmptyDict)
    [] kind = "uuid" -> JDict([uuid |-> JStr("u")])
    [] kind = "id" -> JDict([id |-> JInt(3)])
    [] kind = "identifier" -> JDict([identifier |-> JStr("n")])
    [] kind = "id_identifier" -> JDict([id |-> JNone, identifier |-> JStr("n")])
    [] kind = "all" -> JDict([uuid |-> JStr("u"), id |-> JInt(3), identifier |-> JStr("n")])
    [] kind = "title" -> JDict([title |-> JStr("t")])
DataValue(kind) ==
  CASE kind = "null" -> JNone
    [] kind = "id" -> JDict([id |-> JStr("d")])
    [] kind = "doi" -> JDict([doi |-> JStr("x")])
    [] kind = "list" -> JList(<<JInt(1)>>)
    [] kind = "number" -> JInt(5)
RecordOf(i, a, d) ==
  [k \in (IF i = "absent" THEN {} ELSE {"id"})
           \cup (IF a = "absent" THEN {} ELSE {"attributes"})
           \cup (IF d = "absent" THEN {} ELSE {"data"}) |->
     CASE k = "id" -> IdValue(i)
       [] k = "attributes" -> AttrValue(a)
       [] k = "data" -> DataValue(d)]
IdCalls ==
  {[fn |-> "get_dataset_id", rec |-> RecordOf(i, a, d), kinds |-> <<i, a, d>>] :
     i \in IdKinds, a \in AttrKinds, d \in DataKinds}

\* get_dataset_id(rec) for the record of the call
CallGetId ==
  /\ call.fn = "get_dataset_id"
  /\ outcome = <<"none">>
  /\ outcome' = OutcomeOf(get_dataset_id(call.rec))
  /\ UNCHANGED call
  /\ StaysParked

CallInputs == BodyCalls \cup DictCalls \cup IdCalls \cup SymbolCalls \cup E0Calls \cup StepCalls \cup FreeCalls

InitCalls ==
  /\ Parked
  /\ NotConverting
  /\ call \in CallInputs
  /\ outcome = <<"none">>

NextCalls ==
  \/ CallIterRecords
  \/ CallCoerce
  \/ CallGuessE0
  \/ CallNormalize
  \/ CallGetId

SpecCalls == InitCalls /\ [][NextCalls]_vars

-----------------------------------------------------------------------------
(* Properties of the functions called on their own (SpecCalls).            *)

\* the records of a body: its items that are dicts, in order
RecordsOf(items) ==
  LET ds == SelectSeq(items, IsDict) IN [i \in DOMAIN ds |-> ds[i][2]]

\* C12: the bodies [r1, r2], {"data": [r1, r2]} and {"items": [r1, r2]}
\* yield the same sequence from _iter_api_records: the records r1, r2 in
\* this order.
C12_ShapeInvariant ==
  (call.fn = "_iter_api_records" /\ outcome[1] = "returned"
     /\ call.shape \in {"list", "data", "items"})
    => outcome[2] = RecordsOf(call.items)

\* the body {"items": [r1, r2]} of two different records has yielded them
C12_Witness ==
  /\ call.fn = "_iter_api_records"
  /\ call.shape = "items"
  /\ call.items = <<JDict(Rec_plain), JDict(Rec_pref)>>
  /\ outcome = Returned(<<Rec_plain, Rec_pref>>)

\* the symbols of the table Z2SYM
KnownSymbols == {Z2SYM[z] : z \in DOMAIN Z2SYM}

\* C14: every symbol returned by coerce_element_symbol is one of the 92
\* symbols of Z2SYM; an empty token, a number outside 1..92 and a letter
\* string that is no element symbol are rejected with ValueError.
C14_KnownSymbol ==
  (call.fn = "coerce_element_symbol" /\ outcome # <<"none">>)
    => /\ outcome[1] = "returned" => outcome[2] \in KnownSymbols
       /\ outcome[1] = "raised" => outcome[2] \in
            {"ValueError: Empty element", "ValueError: Unknown atomic number"}

\* the keys of E0Keys that the header holds with a value float() accepts
Parses(hdr, i) == dict_has(hdr, E0Keys[i]) /\ parse_float(dict_get(hdr, E0Keys[i])).ok
KShell(edge) == edge # <<>> /\ Upper(edge)[1] = "K"

\* C15: guess_e0 returns the value of the first of Scan.edge_energy,
\* Edge.energy, Edge.E0 that parses as a float, whatever the keys before it
\* hold; with no such key the tabulated value when the edge is a K edge and
\* the element is in K_EDGES; otherwise the median of the energy array.
C15_ResolutionOrder ==
  (call.fn = "guess_e0" /\ outcome # <<"none">>) =>
    LET hdr == call.header IN
    IF \E i \in 1..3 : Parses(hdr, i)
    THEN LET i == CHOOSE i \in 1..3 : Parses(hdr, i) /\ \A j \in 1..(i - 1) : ~Parses(hdr, j)
         IN  /\ outcome[1] = "returned"
             /\ outcome[2] = parse_float(dict_get(hdr, E0Keys[i])).val
    ELSE IF KShell(call.edge) /\ call.element \in DOMAIN K_EDGES
    THEN outcome[1] = "returned" /\ outcome[2] = Num(K_EDGES[call.element])
    ELSE IF call.E[1] # "None"
    THEN outcome[1] = "returned" /\ outcome[2] = median(call.E[2])
    ELSE outcome[1] = "raised"

\* Scan.edge_energy is no number and Edge.E0 is one, for an element of the
\* table at the K edge: the value of Edge.E0 has been returned
C15_Witness ==
  /\ call.fn = "guess_e0"
  /\ call.header = <<[k |-> Key_ScanEdgeEnergy, v |-> Val_abc],
                     [k |-> Key_EdgeE0, v |-> Val_7300]>>
  /\ call.element = Sym_Fe
  /\ call.edge = Edge_K
  /\ call.E[1] = "array"
  /\ outcome = Returned(Num(730050))

\* C16: a value returned by guess_e0 is a finite number, and with no usable
\* header value, no tabulated value and an empty energy array guess_e0
\* raises.
C16_FiniteE0 ==
  (call.fn = "guess_e0" /\ outcome[1] = "returned") => IsNum(outcome[2])

\* the call of normalize_xanes has an empty pre-edge or post-edge subset
EmptyWindow ==
  \/ ~\E i \in DOMAIN call.E : in_window(call.E[i], call.e0, call.pre[1], call.pre[2])
  \/ ~\E i \in DOMAIN call.E : in_window(call.E[i], call.e0, call.post[1], call.post[2])
InUnitInterval(v) == v[1] = "frac" /\ 0 <= v[2] /\ v[2] <= v[3]
\* max(signal) - min(signal) in units of 0.01, for a signal of numbers
Range(mu) ==
  CHOOSE r \in {mu[i][2] - mu[j][2] : i, j \in DOMAIN mu} :
    \A i, j \in DOMAIN mu : r >= mu[i][2] - mu[j][2]

\* C17: normalize_xanes takes the min-max fallback exactly when the pre-edge
\* or the post-edge subset is empty; it then returns values that all lie
\* in [0,1] and the step max(signal) - min(signal), or 1e-12 for a constant
\* signal.
C17_Fallback ==
  (call.fn = "normalize_xanes" /\ outcome # <<"none">>) =>
    IF EmptyWindow
    THEN /\ outcome[1] = "returned"
         /\ outcome[2].branch = "minmax"
         /\ \A i \in DOMAIN outcome[2].mu_norm : InUnitInterval(outcome[2].mu_norm[i])
         /\ \A i \in DOMAIN call.mu : IsNum(call.mu[i])
         /\ call.mu # <<>>
         /\ IF Range(call.mu) = 0 THEN outcome[2].step = EPS
            ELSE outcome[2].step = Frac(Range(call.mu), 100)
    ELSE outcome[1] = "returned" => outcome[2].branch = "fit"

\* what C17 says, for the calls that return and a signal without nan
C17_FallbackWhereItReturns ==
  (/\ call.fn = "normalize_xanes"
   /\ outcome[1] = "returned"
   /\ \A i \in DOMAIN call.mu : IsNum(call.mu[i]))
    => IF EmptyWindow
       THEN /\ outcome[2].branch = "minmax"
            /\ \A i \in DOMAIN outcome[2].mu_norm : InUnitInterval(outcome[2].mu_norm[i])
            /\ IF Range(call.mu) = 0 THEN outcome[2].step = EPS
               ELSE outcome[2].step = Frac(Range(call.mu), 100)
       ELSE outcome[2].branch = "fit"

\* the call gives normalize_xanes a signal that follows a line up to the edge
\* energy and the same line raised by known_step above it
StepCall == call.fn = "normalize_xanes" /\ call.line # <<>>
\* the normalised signal is 0 below the edge energy and 1 above it
ZeroOne(mu_norm) ==
  \A i \in DOMAIN call.E :
    /\ call.E[i][2] < call.e0[2] => mu_norm[i] = FInt(0)
    /\ call.E[i][2] > call.e0[2] => mu_norm[i] = FInt(1)
\* the window w holds two points of different energies
TwoEnergies(w) ==
  \E i, j \in DOMAIN call.E :
    /\ in_window(call.E[i], call.e0, w[1], w[2])
    /\ in_window(call.E[j], call.e0, w[1], w[2])
    /\ call.E[i] # call.E[j]

\* C18 as claimed: for such a signal and windows that each contain points,
\* normalize_xanes returns the step known_step and a normalised signal of 0
\* below and 1 above the edge energy.
C18_StepAsClaimed ==
  (StepCall /\ outcome # <<"none">> /\ ~EmptyWindow)
    => /\ outcome[1] = "returned"
       /\ outcome[2].step = FInt(call.known_step)
       /\ ZeroOne(outcome[2].mu_norm)

\* C18: the same, for windows that each contain two points of different
\* energies and a known_step other than 0 (exact arithmetic).
C18_StepRecovered ==
  (StepCall /\ outcome # <<"none">>
     /\ TwoEnergies(call.pre) /\ TwoEnergies(call.post) /\ call.known_step # 0)
    => /\ outcome[1] = "returned"
       /\ outcome[2].step = FInt(call.known_step)
       /\ ZeroOne(outcome[2].mu_norm)

\* the line E + 2 with a step of 3 over energies on both sides of the edge,
\* at it and outside the windows: the step 3 has been returned
C18_Witness ==
  /\ StepCall
  /\ call.E = Whole(<<0, 2, 4, 5, 6, 8, 10>>)
  /\ call.line = <<1, 2>>
  /\ call.known_step = 3
  /\ outcome[1] = "returned"
  /\ outcome[2].step = FInt(3)
  /\ outcome[2].branch = "fit"

-----------------------------------------------------------------------------
(* Curves/convert.py.  A stored array is [t, dtype, shape, v, items] with   *)
(* v its values in row-major order; an .npz bundle has its arrays in items. *)

\* most files in curves_dir
MaxFiles == 2

ndarray(dtype, shape, v) ==
  [t |-> "ndarray", dtype |-> dtype, shape |-> shape, v |-> v, items |-> <<>>]
\* np.save of a dict: an object array of no dimension that holds the dict
pickled(items) ==
  [t |-> "ndarray", dtype |-> "object", shape |-> <<>>, v |-> <<>>, items |-> items]
npz(items) == [t |-> "npz", dtype |-> "", shape |-> <<>>, v |-> <<>>, items |-> items]
ndim(arr) == Len(arr.shape)
RECURSIVE Product(_)
Product(s) == IF s = <<>> THEN 1 ELSE Head(s) * Product(Tail(s))
size(arr) == Product(arr.shape)

\* is_numeric_2d(arr), for arr an ndarray
is_numeric_2d(arr) ==
  /\ ndim(arr) = 2
  /\ arr.dtype # "object"
  /\ (arr.shape[2] = 2 \/ arr.shape[1] = 2)

\* column_stack with the columns exchanged
column_stack_swapped(E, Y, n) ==
  [t |-> "ndarray", dtype |-> "float", shape |-> <<n, 2>>,
   v |-> [i \in 1..(2 * n) |-> IF i % 2 = 1 THEN Y[(i + 1) \div 2] ELSE E[i \div 2]],
   items |-> <<>>]

\* [E[i], Y[i]] for i < n, as an array of shape (n, 2)
column_stack(E, Y, n) ==
  ndarray("float", <<n, 2>>,
          [i \in 1..(2 * n) |-> IF i % 2 = 1 THEN E[(i + 1) \div 2] ELSE Y[i \div 2]])

Key_energy_keV == <<"e","n","e","r","g","y","_","k","e","V">>
Key_energy_eV == <<"e","n","e","r","g","y","_","e","V">>
Key_mu_over_rho == <<"m","u","_","o","v","e","r","_","r","h","o","_","c","m","2","_","p","e","r","_","g">>
Key_mu_cm_inv == <<"m","u","_","c","m","_","i","n","v">>
GenericKeys == {<<"m","u">>, <<"m","u","_","n","o","r","m">>, <<"y">>}

\* x / 1000.0, for x in units of 0.01 (the inputs are whole multiples)
Per1000(x) == IF IsNum(x) THEN Num(x[2] \div 1000) ELSE x

\* to_numeric_2d_from_dict(d) for d the ordered items of a dict of
\* one-dimensional arrays
to_numeric_2d_from_dict(d) ==
  LET generic == SelectSeq(d, LAMBDA it : Lower(it.k) \in GenericKeys)
      E_keV == IF dict_has(d, Key_energy_keV) THEN dict_get(d, Key_energy_keV)
               ELSE [i \in DOMAIN dict_get(d, Key_energy_eV) |->
                       Per1000(dict_get(d, Key_energy_eV)[i])]
      Y == IF dict_has(d, Key_mu_over_rho) THEN dict_get(d, Key_mu_over_rho)
           ELSE IF dict_has(d, Key_mu_cm_inv) THEN dict_get(d, Key_mu_cm_inv)
           ELSE generic[1].v
      n == IF Len(E_keV) < Len(Y) THEN Len(E_keV) ELSE Len(Y)
  IN  IF ~dict_has(d, Key_energy_keV) /\ ~dict_has(d, Key_energy_eV)
      THEN Raise("KeyError: No energy_keV or energy_eV in dict")
      ELSE IF ~dict_has(d, Key_mu_over_rho) /\ ~dict_has(d, Key_mu_cm_inv) /\ generic = <<>>
      THEN Raise("KeyError: No curve series found")
      ELSE Ok(column_stack(E_keV, Y, n))

\* path.suffix and path.stem: the name is cut at its last "."
suffix(name) == <<".">> \o last_part(name)
stem(name) == SubSeq(name, 1, Len(name) - Len(suffix(name)))

Ext_npy == <<".", "n", "p", "y">>
Ext_npz == <<".", "n", "p", "z">>

\* load_any(path) for the file of this name and content
load_any(name, content) ==
  LET ext == Lower(suffix(name)) IN
  IF ext = Ext_npy THEN
    IF content.dtype = "object"
    THEN Raise("ValueError: Object arrays cannot be loaded when allow_pickle=False")
    ELSE IF is_numeric_2d(content) THEN Ok(content)
    ELSE IF size(content) # 1
    THEN Raise("ValueError: can only convert an array of size 1 to a Python scalar")
    ELSE Raise("TypeError: argument of type 'float' is not iterable")
  ELSE IF ext = Ext_npz THEN to_numeric_2d_from_dict(content.items)
  ELSE Raise("ValueError: Unsupported file type")

\* arr.T that leaves a two-row array as it is
T_never(arr) == arr

\* arr.T of a two-dimensional array
T(arr) ==
  LET r == arr.shape[1]
      c == arr.shape[2]
  IN  ndarray(arr.dtype, <<c, r>>,
              [k \in 1..(r * c) |-> arr.v[((k - 1) % r) * c + ((k - 1) \div r) + 1]])

\* the characters of file names in the order of their codes
CharOrder ==
  <<".">> \o DigitChars \o UpperLetters \o <<"_">> \o LowerLetters
Ord(c) == IndexIn(c, CharOrder)
RECURSIVE name_less(_, _)
name_less(a, b) ==
  IF b = <<>> THEN FALSE
  ELSE IF a = <<>> THEN TRUE
  ELSE IF Head(a) # Head(b) THEN Ord(Head(a)) < Ord(Head(b))
  ELSE name_less(Tail(a), Tail(b))

\* sorted(curves_dir.glob("*.*")): the names with a ".", in ascending order
RECURSIVE sorted_names(_)
sorted_names(names) ==
  IF names = {} THEN <<>>
  ELSE LET least == CHOOSE n \in names : \A m \in names \ {n} : name_less(n, m)
       IN  <<least>> \o sorted_names(names \ {least})
glob(dir) == sorted_names({f.name : f \in {g \in dir : IsIn(".", g.name)}})

\* the content of the file called name
content_of(dir, name) == (CHOOSE f \in dir : f.name = name).content

\* the output named after the whole stem
out_name_whole_stem(name) == stem(name) \o <<".", "n", "p", "y">>

\* fn.with_name(f"{elem}.npy") for elem = fn.stem.split("_")[0]
out_name(name) == Split(stem(name), "_")[1] \o Ext_npy

\* lines 73-74
oriented(arr) ==
  IF arr.shape[1] = 2 /\ arr.shape[2] # 2 THEN T(arr) ELSE arr

Skip(name, reason) == [kind |-> "skip", name |-> name, text |-> reason]
Done(name, out) == [kind |-> "ok", name |-> name, text |-> out]

\* main, lines 59-63
ConvStart ==
  /\ conv_pc = "start"
  /\ IF curves_dir[1] = "absent"
     THEN /\ printed' = Append(printed, [kind |-> "missing", name |-> <<>>, text |-> ""])
          /\ conv_pc' = "exit"
          /\ UNCHANGED <<listing, pos>>
     ELSE /\ listing' = glob(curves_dir[2])
          /\ pos' = 1
          /\ conv_pc' = "loop"
          /\ UNCHANGED printed
  /\ UNCHANGED <<curves_dir, saves>>
  /\ UNCHANGED <<mainVars, searchVars, dlVars, fileVars, outVars, stage, diag, caught>>
  /\ UNCHANGED callVars

\* one pass of the loop of lines 63-87.  astype(np.float64) of an array of
\* texts and a np.save that the file system refuses raise outside the try
\* block: main ends with the exception
ConvFile ==
  /\ conv_pc = "loop"
  /\ pos <= Len(listing)
  /\ LET fn == listing[pos]
         r == load_any(fn, content_of(curves_dir[2], fn))
         arr == oriented(r.val)
         out == out_name(fn)
         saved == ndarray("float", arr.shape, arr.v)
     IN  IF Lower(suffix(fn)) \notin {Ext_npy, Ext_npz}
         THEN pos' = pos + 1 /\ UNCHANGED <<curves_dir, conv_pc, printed, saves>>
         ELSE IF ~r.ok
         THEN /\ printed' = Append(printed, Skip(fn, r.exc))
              /\ pos' = pos + 1
              /\ UNCHANGED <<curves_dir, conv_pc, saves>>
         ELSE IF ~(ndim(arr) = 2 /\ arr.shape[2] = 2)
         THEN /\ printed' = Append(printed, Skip(fn, "not 2-column after conversion"))
              /\ pos' = pos + 1
              /\ UNCHANGED <<curves_dir, conv_pc, saves>>
         ELSE IF arr.dtype = "str"
         THEN conv_pc' = "crashed" /\ UNCHANGED <<curves_dir, pos, printed, saves>>
         ELSE \/ conv_pc' = "crashed" /\ UNCHANGED <<curves_dir, pos, printed, saves>>
              \/ /\ curves_dir' =
                      <<"dir", {f \in curves_dir[2] : f.name # out}
                                 \cup {[name |-> out, content |-> saved]}>>
                 /\ saves' = Append(saves, [fn |-> fn, source |-> content_of(curves_dir[2], fn),
                                            out |-> out, arr |-> saved])
                 /\ printed' = Append(printed, Done(fn, out))
                 /\ pos' = pos + 1
                 /\ UNCHANGED conv_pc
  /\ UNCHANGED listing
  /\ UNCHANGED <<mainVars, searchVars, dlVars, fileVars, outVars, stage, diag, caught>>
  /\ UNCHANGED callVars

\* the loop is over: main returns
ConvEnd ==
  /\ conv_pc = "loop"
  /\ pos > Len(listing)
  /\ conv_pc' = "done"
  /\ UNCHANGED <<curves_dir, listing, pos, printed, saves>>
  /\ UNCHANGED <<mainVars, searchVars, dlVars, fileVars, outVars, stage, diag, caught>>
  /\ UNCHANGED callVars

\* file names and contents; in the contents the energies are 1, 2, 3 (keV)
\* and the values of the curve 4, 5, 6
Name_Fe_K_npy == <<"F","e","_","K",".","n","p","y">>
Name_Fe_npy == <<"F","e",".","n","p","y">>
Name_Fe_NPY == <<"F","e",".","N","P","Y">>
Name_Fe_b_npz == <<"F","e","_","b",".","n","p","z">>
Name_Cu_npz == <<"C","u",".","n","p","z">>
Name_notes_txt == <<"n","o","t","e","s",".","t","x","t">>
Name_LOG == <<"L","O","G">>

Nums(s) == [i \in DOMAIN s |-> Num(s[i])]
Txt == <<"txt", 0>>
ArrayInputs ==
  {ndarray("float", <<2, 3>>, Nums(<<1, 2, 3, 4, 5, 6>>)),
   ndarray("float", <<3, 2>>, Nums(<<1, 4, 2, 5, 3, 6>>)),
   ndarray("float", <<2, 2>>, Nums(<<1, 2, 4, 5>>)),
   ndarray("float", <<2, 2>>, Nums(<<1, 4, 2, 5>>)),
   ndarray("float", <<2, 1>>, Nums(<<1, 4>>)),
   ndarray("float", <<3, 3>>, Nums(<<1, 2, 3, 4, 5, 6, 7, 8, 9>>)),
   ndarray("float", <<3>>, Nums(<<1, 2, 3>>)),
   ndarray("float", <<>>, Nums(<<1>>)),
   pickled(<<[k |-> Key_energy_keV, v |-> Nums(<<1, 2>>)],
             [k |-> Key_mu_over_rho, v |-> Nums(<<4, 5>>)]>>),
   ndarray("str", <<1, 2>>, <<Txt, Txt>>)}
BundleInputs ==
  {npz(<<[k |-> Key_energy_eV, v |-> Nums(<<1000, 2000>>)],
         [k |-> <<"M","u">>, v |-> Nums(<<4, 5, 6>>)]>>),
   npz(<<[k |-> Key_mu_cm_inv, v |-> Nums(<<5, 6>>)],
         [k |-> Key_energy_keV, v |-> Nums(<<1, 2>>)],
         [k |-> Key_energy_eV, v |-> Nums(<<3000, 4000>>)]>>),
   npz(<<[k |-> <<"y">>, v |-> Nums(<<5>>)]>>)}
TextInput == [t |-> "text", dtype |-> "", shape |-> <<>>, v |-> <<>>, items |-> <<>>]

ContentsFor(name) ==
  IF Lower(suffix(name)) = Ext_npy THEN ArrayInputs
  ELSE IF Lower(suffix(name)) = Ext_npz THEN BundleInputs
  ELSE {TextInput}
NameInputs ==
  {Name_Fe_K_npy, Name_Fe_npy, Name_Fe_NPY, Name_Fe_b_npz, Name_Cu_npz,
   Name_notes_txt, Name_LOG}
\* the directories of at most MaxFiles files
DirInputs ==
  UNION {{{[name |-> n, content |-> c[n]] : n \in S} :
            c \in {d \in [S -> ArrayInputs \cup BundleInputs \cup {TextInput}] :
                     \A n \in S : d[n] \in ContentsFor(n)}} :
         S \in {N \in SUBSET NameInputs : Cardinality(N) <= MaxFiles}}

InitConvert ==
  /\ Parked
  /\ NotCalled
  /\ curves_dir \in {<<"absent">>} \cup {<<"dir", d>> : d \in DirInputs}
  /\ conv_pc = "start"
  /\ listing = <<>>
  /\ pos = 0
  /\ printed = <<>>
  /\ saves = <<>>

NextConvert ==
  \/ ConvStart
  \/ ConvFile
  \/ ConvEnd

SpecConvert == InitConvert /\ [][NextConvert]_vars

-----------------------------------------------------------------------------
(* Properties of convert.py (SpecConvert).                                 *)

\* main is about to handle a file that holds an array
AtArray ==
  /\ conv_pc = "loop"
  /\ pos <= Len(listing)
  /\ Lower(suffix(listing[pos])) = Ext_npy
  /\ content_of(curves_dir[2], listing[pos]).t = "ndarray"
\* the array of the file main is at
Source == content_of(curves_dir[2], listing[pos])
\* row i of an array of two columns
RowOf(arr, i) == <<arr.v[2 * i - 1], arr.v[2 * i]>>
LastOf(s) == s[Len(s)]
\* the step has written the file of the array arr
Wrote(arr) ==
  /\ Len(saves') = Len(saves) + 1
  /\ LastOf(saves').fn = listing[pos]
  /\ LastOf(saves').arr = arr
  /\ content_of(curves_dir'[2], LastOf(saves').out) = arr

\* C19: when main handles a numeric array of shape (2, N), N other than 2,
\* and does not end on an exception, it writes the array of shape (N, 2)
\* whose row i is (array[0, i], array[1, i]); an array of shape (N, 2) is
\* written with its rows unchanged.
C19_Transposition ==
  [][(AtArray /\ Source.dtype = "float" /\ ndim(Source) = 2 /\ conv_pc' # "crashed")
       => LET r == Source.shape[1]
              c == Source.shape[2]
          IN  /\ (r = 2 /\ c # 2) =>
                   Wrote(ndarray("float", <<c, 2>>,
                                 [k \in 1..(2 * c) |->
                                    IF k % 2 = 1 THEN Source.v[(k + 1) \div 2]
                                    ELSE Source.v[c + k \div 2]]))
              /\ c = 2 => Wrote(Source)]_vars

\* an array of shape (2, 3) and one of shape (3, 2) have both been written
\* as the same three rows
C19_Witness ==
  /\ conv_pc = "done"
  /\ Len(saves) = 2
  /\ saves[1].source.shape = <<2, 3>>
  /\ saves[2].source.shape = <<3, 2>>
  /\ saves[1].arr = saves[2].arr
  /\ saves[1].arr.shape = <<3, 2>>
  /\ RowOf(saves[1].arr, 2) = <<Num(2), Num(5)>>

CurveEnergies == {Num(1), Num(2), Num(3)}
CurveValues == {Num(4), Num(5), Num(6)}
\* the array has two columns and each row is an energy and a value
PairRows(arr) ==
  /\ ndim(arr) = 2
  /\ arr.shape[2] = 2
  /\ Len(arr.v) = 2 * arr.shape[1]
  /\ \A i \in 1..arr.shape[1] :
       RowOf(arr, i)[1] \in CurveEnergies /\ RowOf(arr, i)[2] \in CurveValues
\* a stored array that is not two-dimensional with a dimension of 2
OtherShape(arr) ==
  arr.t = "ndarray" /\ ~(ndim(arr) = 2 /\ (arr.shape[1] = 2 \/ arr.shape[2] = 2))
\* the step has skipped the file with a diagnostic and written nothing
Skipped ==
  /\ Len(printed') = Len(printed) + 1
  /\ LastOf(printed').kind = "skip"
  /\ LastOf(printed').name = listing[pos]
  /\ saves' = saves
  /\ curves_dir' = curves_dir

\* C20 as claimed: every written file is a table of two columns whose rows
\* are (energy, value) pairs, whatever the orientation of the source, and
\* an array of another shape is skipped with a diagnostic, nothing written.
C20_TwoColumnsAsClaimed ==
  /\ [](\A i \in DOMAIN saves : PairRows(saves[i].arr))
  /\ [][(AtArray /\ OtherShape(Source)) => Skipped]_vars

\* C20: the same, the rows being (energy, value) pairs unless the source is
\* an array of shape (2, 2), which is written as it is stored.
C20_TwoColumns ==
  /\ [](\A i \in DOMAIN saves :
          /\ ndim(saves[i].arr) = 2
          /\ saves[i].arr.shape[2] = 2
          /\ Len(saves[i].arr.v) = 2 * saves[i].arr.shape[1]
          /\ saves[i].source.shape # <<2, 2>> => PairRows(saves[i].arr))
  /\ [][(AtArray /\ OtherShape(Source)) => Skipped]_vars

\* a bundle has been written as pairs after an array of one dimension was
\* skipped
C20_Witness ==
  /\ conv_pc = "done"
  /\ Len(printed) = 2
  /\ printed[1].kind = "skip"
  /\ printed[1].name = Name_Fe_K_npy
  /\ Len(saves) = 1
  /\ saves[1].source.t = "npz"
  /\ saves[1].arr.shape = <<2, 2>>
  /\ PairRows(saves[1].arr)

\* main is about to handle a file of a recognised suffix
AtFile ==
  /\ conv_pc = "loop"
  /\ pos <= Len(listing)
  /\ Lower(suffix(listing[pos])) \in {Ext_npy, Ext_npz}
\* the file main is at holds a bundle: an .npz, or a dict saved as .npy
AtBundle ==
  /\ AtFile
  /\ \/ Source.t = "npz"
     \/ Source.t = "ndarray" /\ Source.dtype = "object"
HasEnergy(d) == dict_has(d, Key_energy_keV) \/ dict_has(d, Key_energy_eV)
HasSignal(d) ==
  \/ dict_has(d, Key_mu_over_rho)
  \/ dict_has(d, Key_mu_cm_inv)
  \/ \E i \in DOMAIN d : Lower(d[i].k) \in GenericKeys
\* the energy and the value that C21 names for the bundle d
EnergyOf(d) ==
  IF dict_has(d, Key_energy_keV) THEN dict_get(d, Key_energy_keV)
  ELSE LET eV == dict_get(d, Key_energy_eV)
       IN  [i \in DOMAIN eV |-> Num(eV[i][2] \div 1000)]
ValueOf(d) ==
  IF dict_has(d, Key_mu_over_rho) THEN dict_get(d, Key_mu_over_rho)
  ELSE IF dict_has(d, Key_mu_cm_inv) THEN dict_get(d, Key_mu_cm_inv)
  ELSE d[CHOOSE i \in DOMAIN d :
           /\ Lower(d[i].k) \in GenericKeys
           /\ \A j \in 1..(i - 1) : Lower(d[j].k) \notin GenericKeys].v
Shorter(a, b) == IF Len(a) < Len(b) THEN Len(a) ELSE Len(b)
\* the step has written the curve of the bundle d
WroteCurve(d) ==
  /\ Len(saves') = Len(saves) + 1
  /\ LastOf(saves').fn = listing[pos]
  /\ LET arr == LastOf(saves').arr
         n == Shorter(EnergyOf(d), ValueOf(d))
     IN  /\ arr.shape = <<n, 2>>
         /\ \A i \in 1..n : RowOf(arr, i) = <<EnergyOf(d)[i], ValueOf(d)[i]>>
         /\ content_of(curves_dir'[2], LastOf(saves').out) = arr

\* C21: a bundle, stored as .npz or as a dict in a .npy, that holds an
\* energy key and a signal key is not skipped: unless main ends on an
\* exception of the write, the curve of energy_keV (else energy_eV / 1000)
\* and mu_over_rho_cm2_per_g (else mu_cm_inv, else mu / mu_norm / y),
\* both cut to the shorter length, is written.
C21_BundleConverted ==
  [][(AtBundle /\ HasEnergy(Source.items) /\ HasSignal(Source.items)
        /\ conv_pc' # "crashed")
       => WroteCurve(Source.items)]_vars

\* what C21 says, for the bundles stored as .npz
C21_NpzConverted ==
  [][(AtBundle /\ Source.t = "npz" /\ HasEnergy(Source.items) /\ HasSignal(Source.items)
        /\ conv_pc' # "crashed")
       => WroteCurve(Source.items)]_vars

\* C22: a failure while one file is handled never ends the batch: main goes
\* on to the next file of the listing, and a file for which nothing is
\* written gets a diagnostic line.
C22_BatchContinues ==
  [][AtFile => /\ conv_pc' = "loop"
               /\ pos' = pos + 1
               /\ saves' = saves => /\ Len(printed') = Len(printed) + 1
                                    /\ LastOf(printed').kind = "skip"
                                    /\ LastOf(printed').name = listing[pos]]_vars

\* the leading token of a file name: what comes before its first "_", or its
\* whole stem when it has none
Token(name) ==
  LET s == stem(name)
      k == CHOOSE k \in 0..Len(s) :
             /\ \A i \in 1..k : s[i] # "_"
             /\ k = Len(s) \/ s[k + 1] = "_"
  IN  SubSeq(s, 1, k)
\* the curve that main makes of the content src of a file
Conversion(src) ==
  IF src.t = "npz"
  THEN LET n == Shorter(EnergyOf(src.items), ValueOf(src.items))
       IN  ndarray("float", <<n, 2>>,
                   [k \in 1..(2 * n) |-> IF k % 2 = 1 THEN EnergyOf(src.items)[(k + 1) \div 2]
                                         ELSE ValueOf(src.items)[k \div 2]])
  ELSE IF src.shape[2] = 2 THEN src
  ELSE LET c == src.shape[2]
       IN  ndarray("float", <<c, 2>>,
                   [k \in 1..(2 * c) |-> IF k % 2 = 1 THEN src.v[(k + 1) \div 2]
                                         ELSE src.v[c + k \div 2]])
\* the saves whose input has the leading token x
SavesOf(x) == SelectSeq(saves, LAMBDA s : Token(s.fn) = x)

\* C23: every output is named after the leading token of its input, the
\* inputs are converted in the order of their names, and after the run the
\* file of the element X holds the conversion of the last converted input
\* whose leading token is X.
C23_LastWriteWins ==
  /\ \A i \in DOMAIN saves :
       /\ saves[i].out = Token(saves[i].fn) \o Ext_npy
       /\ saves[i].arr = Conversion(saves[i].source)
       /\ \A j \in 1..(i - 1) : name_less(saves[j].fn, saves[i].fn)
  /\ conv_pc = "done" =>
       \A i \in DOMAIN saves :
         LET x == Token(saves[i].fn) IN
         content_of(curves_dir[2], x \o Ext_npy) = LastOf(SavesOf(x)).arr

\* Fe.npy and Fe_b.npz have both been converted: Fe.npy holds the curve of
\* the bundle
C23_Witness ==
  /\ conv_pc = "done"
  /\ Len(saves) = 2
  /\ saves[1].fn = Name_Fe_npy
  /\ saves[1].source.shape = <<3, 2>>
  /\ saves[2].fn = Name_Fe_b_npz
  /\ saves[2].arr # saves[1].arr
  /\ content_of(curves_dir[2], Name_Fe_npy) = saves[2].arr

\* C30: no file of the listing is overwritten by an output of the run before
\* it has been read: a step of main never writes to the path of a file that
\* comes later in the listing.
C30_InputsReadBeforeOverwritten ==
  [][Len(saves') > Len(saves)
       => \A j \in (pos + 1)..Len(listing) : listing[j] # LastOf(saves').out]_vars

-----------------------------------------------------------------------------
(* Further properties of the search (SpecSearch).                          *)

\* the records of the pages s, in order
RECURSIVE Flat(_)
Flat(s) == IF s = <<>> THEN <<>> ELSE Head(s).recs \o Flat(Tail(s))
YieldedRecs == [i \in DOMAIN yielded |-> yielded[i].rec]
IsPrefix(a, b) == Len(a) <= Len(b) /\ a = SubSeq(b, 1, Len(a))

\* C24: within one mirror the pages are requested in increasing order from
\* 1; a page that fails or holds no record is the last one requested of its
\* mirror; and the records of the earlier pages have all been yielded, in
\* order, and stay so.
C24_Pagination ==
  /\ \A i \in DOMAIN served :
       IF i = 1 \/ served[i - 1].base # served[i].base
       THEN served[i].page = 1
       ELSE served[i].page = served[i - 1].page + 1 /\ served[i - 1].recs # <<>>
  /\ \A i, j \in DOMAIN served :
       (i < j /\ served[i].recs = <<>>) => served[j].base # served[i].base
  /\ IsPrefix(YieldedRecs, Flat(served))
  /\ served # <<>> => IsPrefix(Flat(SubSeq(served, 1, Len(served) - 1)), YieldedRecs)

\* the first mirror gave a record on page 1 and its page 2 failed in
\* requests.get: the search is over with that record yielded
C24_Witness ==
  /\ stage = "selected"
  /\ gen.done
  /\ Len(served) = 2
  /\ served[1].base = 1 /\ served[1].recs # <<>>
  /\ served[2].base = 1 /\ served[2].page = 2 /\ served[2].recs = <<>>
  /\ caught = <<"_try_get">>
  /\ Len(yielded) = 1

-----------------------------------------------------------------------------
(* Further properties of the functions called on their own (SpecCalls).    *)

ListKeys == <<"data", "items", "results">>
\* the body of the call holds a list under the key ListKeys[i]
HoldsList(i) ==
  \E n \in DOMAIN call.items : call.items[n].k = ListKeys[i] /\ IsList(call.items[n].v)
ListUnder(i) ==
  call.items[CHOOSE n \in DOMAIN call.items : call.items[n].k = ListKeys[i]].v[2]

\* C25: for a dict body _iter_api_records takes the records of the first of
\* data, items, results that holds a list, empty or not, and nothing else;
\* it yields every value of the dict only when none of the three holds a
\* list and every value is a dict; otherwise it yields nothing.
C25_KeyPriority ==
  (call.fn = "_iter_api_records" /\ call.shape = "dict" /\ outcome[1] = "returned") =>
    IF \E i \in 1..3 : HoldsList(i)
    THEN LET i == CHOOSE i \in 1..3 : HoldsList(i) /\ \A j \in 1..(i - 1) : ~HoldsList(j)
         IN  outcome[2] = RecordsOf(ListUnder(i))
    ELSE IF \A n \in DOMAIN call.items : IsDict(call.items[n].v)
    THEN outcome[2] = [n \in DOMAIN call.items |-> call.items[n].v[2]]
    ELSE outcome[2] = <<>>

\* an empty list under data hides the lists under items and results, which
\* come first in the body: nothing has been yielded
C25_Witness ==
  /\ call.fn = "_iter_api_records"
  /\ call.shape = "dict"
  /\ Len(call.items) = 3
  /\ call.items[1].k = "results" /\ call.items[1].v = JList(<<JDict(Rec_noid)>>)
  /\ call.items[2].k = "items" /\ call.items[2].v = JList(<<JDict(Rec_plain)>>)
  /\ call.items[3].k = "data" /\ call.items[3].v = JList(<<>>)
  /\ outcome = Returned(<<>>)

\* the id that C26 names for the kinds of top-level id, attributes and data
\* of the call: "" when there is none
NamedId ==
  LET i == call.kinds[1]
      a == call.kinds[2]
      d == call.kinds[3]
  IN  IF i = "str" THEN <<"found", "a">>
      ELSE IF i = "int" THEN <<"found", "7">>
      ELSE IF i = "empty" THEN <<"found", "">>
      ELSE IF a \in {"uuid", "all"} THEN <<"found", "u">>
      ELSE IF a = "id" THEN <<"found", "3">>
      ELSE IF a = "id_identifier" THEN <<"found", "None">>
      ELSE IF a = "identifier" THEN <<"found", "n">>
      ELSE IF d = "id" THEN <<"found", "d">>
      ELSE <<"none", "">>

\* C26: get_dataset_id returns the top-level id when it is a string or an
\* integer, else the first present of attributes.uuid, attributes.id,
\* attributes.identifier, else data.id, and it raises, returning nothing,
\* exactly when none of them is present.  The exception is the KeyError of
\* line 156, or the TypeError of "'id' in data" where data is a number.
C26_IdResolution ==
  (call.fn = "get_dataset_id" /\ outcome # <<"none">>) =>
    IF NamedId[1] = "found"
    THEN outcome[1] = "returned" /\ outcome[2] = NamedId[2]
    ELSE outcome = Raised(IF call.kinds[3] = "number" THEN "TypeError" ELSE "KeyError")

\* the top-level id is null, the attributes hold id and identifier and the
\* data an id: the id of the attributes has been returned
C26_Witness ==
  /\ call.fn = "get_dataset_id"
  /\ call.kinds = <<"null", "all", "id">>
  /\ outcome = Returned("u")

-----------------------------------------------------------------------------
(* The output directory while an element fails (Spec).                      *)

\* fetch_convert_one is at one of its steps 1-4
BeforeE0 == stage \in {"search", "selected", "download", "extract", "parse"}
\* the search has chosen a dataset id
Located == chosen_id[1] # "None" /\ chosen_id[2] # ""
\* the archive is the content that the last mirror asked has answered with
Retrieved ==
  /\ dl_tried # <<>>
  /\ LET t == _try_get(dl_tried[Len(dl_tried)].resp)
     IN  ~t.none /\ t.r.content # <<"empty">> /\ zip_bytes = t.r.content
\* the spectrum is the member that extract_first_spectrum gives for the archive
ExtractedFrom ==
  LET r == extract_first_spectrum(zip_bytes)
  IN  r.ok /\ spec_name = r.val.name /\ spec_bytes = r.val.data
\* header and data are what parse_xdi_or_ascii gives for the spectrum
ParsedFrom ==
  LET r == parse_xdi_or_ascii(spec_bytes)
  IN  r.ok /\ header = r.val.header /\ data = r.val.data
\* the step ends a call of fetch_convert_one
Ends == Len(returned') = Len(returned) + 1

\* C27: while fetch_convert_one searches, downloads, extracts and parses, the
\* output files and the output directory stay as they are, and a call that
\* ends in one of these steps returns no path; a step that writes a file or
\* makes the directory is taken only at the save, with an id chosen, the
\* archive downloaded, the spectrum extracted from it and parsed.
C27_FailureLeavesOutput ==
  [][/\ BeforeE0 =>
          /\ files' = files
          /\ outdir_exists' = outdir_exists
          /\ Ends => returned'[Len(returned')] # "path"
     /\ (files' # files \/ outdir_exists' # outdir_exists) =>
          stage = "save" /\ Located /\ Retrieved /\ ExtractedFrom /\ ParsedFrom]_vars

\* the first element has been saved and the parse of the second has failed:
\* the file of the first is the one file there is
C27_Witness ==
  /\ returned = <<"path", "none">>
  /\ caught = <<"fetch_convert_one: parse_xdi_or_ascii">>
  /\ Cardinality(files) = 1
  /\ outdir_exists

-----------------------------------------------------------------------------
(* From the search to the download (SpecSearch).                            *)

\* the yielded records from which get_dataset_id returns an id
YieldedWithId == {i \in DOMAIN yielded : HasId(yielded[i].rec)}
\* the selection loop and the test of line 301 are over
Checked == YieldedWithId # {} /\ stage \notin {"search", "selected"}
\* the run has printed that it found no dataset
ReportedNone ==
  \E i \in DOMAIN diag : diag[i].msg = "[WARN] No MDR dataset found"

\* C28 (as claimed): when get_dataset_id returns an id for a yielded record,
\* fetch_convert_one goes on to the download with a chosen id and does not
\* print that no dataset was found.
C28_IdFoundIsDownloaded ==
  Checked => stage = "download" /\ chosen_id[1] # "None" /\ ~ReportedNone

\* what holds instead: the run goes on to the download exactly when the id
\* that the selection chose (C2) is not the empty string
C28_DownloadedWhereNonEmpty ==
  Checked =>
    LET pref == {i \in YieldedWithId :
                   mentions(elements[1], TitleOf(Produced[i]), DescOf(Produced[i]))}
        first == IF pref # {} THEN Least(pref) ELSE Least(YieldedWithId)
        id == get_dataset_id(Produced[first]).val
    IN  IF id # ""
        THEN stage = "download" /\ chosen_id = JStr(id) /\ ~ReportedNone
        ELSE stage = "idle" /\ returned = <<"none">> /\ ReportedNone

\* a record whose id is the empty string came first and a record with the id
\* "b" after it: no dataset was found
C28_EmptyIdBlocks ==
  /\ Len(yielded) = 2
  /\ yielded[1].rec = Rec_emptyid
  /\ yielded[2].rec = Rec_plain
  /\ ReportedNone

-----------------------------------------------------------------------------
(* The requests of one element in time (Spec).                              *)

\* fetch_convert_one is running
InCall == pc = "loop" /\ stage # "idle"
\* a yielded record mentions the element and XAFS and has an id
FoundPreferred ==
  \E i \in DOMAIN yielded :
    /\ attrs_of(yielded[i].rec).ok
    /\ mentions(elem, TitleOf(yielded[i].rec), DescOf(yielded[i].rec))
    /\ HasId(yielded[i].rec)
\* the step sends a search request, or a download request
Searches == InCall /\ Len(served') = Len(served) + 1
Downloads == InCall /\ Len(dl_tried') = Len(dl_tried) + 1

\* C29: a search request is sent only when every record of the pages
\* received so far has been yielded, and none is sent once a preferred
\* record with an id has been yielded, nor once a download request of the
\* element has been sent; a download request is sent only after the
\* selection loop has ended.
C29_LazySearch ==
  [][/\ Searches =>
          /\ stage = "search"
          /\ Produced = Flat(served)
          /\ ~FoundPreferred
          /\ dl_tried = <<>>
     /\ Downloads => stage = "download" /\ served' = served
     /\ (InCall /\ (FoundPreferred \/ dl_tried # <<>>)) => served' = served]_vars

\* the preferred record of page 1 of the first mirror has been chosen and the
\* download has been asked of two mirrors: page 1 is the one search request
C29_Witness ==
  /\ stage = "download"
  /\ Len(dl_tried) = 2
  /\ FoundPreferred
  /\ Len(served) = 1
  /\ gen.page = 1 /\ gen.base = 1 /\ ~gen.done
====
